---- MODULE Spec2Model ----
(***************************************************************************)
(* A model of client/client.go: the containerd client's transfer           *)
(* orchestration (Fetch, Push), its connection handling (Reconnect, Close, *)
(* the service accessors) and its runtime-name resolution (defaultRuntime).*)
(* Goroutines calling into one Client are the processes Procs; a call is   *)
(* cut into steps at the points where it calls out to a service or takes a *)
(* lock.                                                                   *)
(***************************************************************************)
EXTENDS Integers, Sequences, FiniteSets, TLC

\* ------------------------------------------------------------------ bounds
NumProcs == 2
MaxCalls == 2
MaxRefLen == 2
MaxPlatforms == 1
NumLayers == 2
MaxHandlers == 2

Procs == 1..NumProcs

VARIABLES
    pc,         \* pc[p]: where goroutine p stands in the call it is running
    call,       \* call[p]: the arguments, locals and result of p's call
    ncalls,     \* calls started so far (capped by MaxCalls)
    leases,     \* leases service: ids of the leases that exist
    leaseStats, \* leases service: how many Create and Delete calls succeeded
    images,     \* image store: names of the registered image records
    sems,       \* semaphore.Weighted objects allocated so far: [cap, held]
    containers, \* container store: ids of the containers created
    copts,      \* the options the client was constructed with
    client,     \* the Client: conn, connector, defaultns, services, runtime
    connMu,     \* Client.connMu: the goroutine holding it, 0 when free
    runtimeMu,  \* Client.runtime.mut: the goroutine holding it, 0 when free
    closed,     \* the connections Close() has been called on
    dials,      \* connections made so far; the next one gets id dials + 1
    frame,      \* frame[p]: the locals and result of p's call on the client
    hist        \* what has been observed of the calls that returned

transferVars == <<call, leases, leaseStats, images, sems, containers>>
clientVars == <<copts, client, connMu, runtimeMu, closed, dials, frame, hist>>
vars == <<pc, ncalls, transferVars, clientVars>>

\* ------------------------------------------------------------ input domains
SeqsUpTo(S, n) == UNION {[1..k -> S] : k \in 0..n}

RefChars == {"r", "@"}
Refs == SeqsUpTo(RefChars, MaxRefLen)
Digests == {<<"d">>, <<"e">>}

\* platform specifiers a caller may pass: platforms.Parse accepts
\* "linux/amd64" and rejects "!"
PlatformStrings == {"linux/amd64", "!"}
PlatformLists == SeqsUpTo(PlatformStrings, MaxPlatforms)
UploadLimits == (-1)..NumLayers

\* handlers a caller may set as base handlers, and as the handler wrapper
\* ("nil": none)
HandlerNames == {"b1", "b2"}
BaseHandlerLists == SeqsUpTo(HandlerNames, MaxHandlers)
HandlerWrappers == {"nil", "w"}

\* RemoteContext, restricted to the fields Fetch and Push read
RemoteContexts ==
    [Unpack : BOOLEAN,
     PlatformMatcher : {[kind |-> "nil", ps |-> <<>>], [kind |-> "explicit", ps |-> <<>>]},
     Platforms : PlatformLists,
     MaxConcurrentUploadedLayers : UploadLimits,
     BaseHandlers : {<<>>},
     HandlerWrapper : {"nil"}]

\* the RemoteContexts that differ in their handlers alone
HandlerContexts ==
    [Unpack : {FALSE},
     PlatformMatcher : {[kind |-> "nil", ps |-> <<>>]},
     Platforms : {<<>>},
     MaxConcurrentUploadedLayers : {0},
     BaseHandlers : BaseHandlerLists,
     HandlerWrapper : HandlerWrappers]

defaultRemoteContext ==
    [Unpack |-> FALSE,
     PlatformMatcher |-> [kind |-> "nil", ps |-> <<>>],
     Platforms |-> <<>>,
     MaxConcurrentUploadedLayers |-> 0,
     BaseHandlers |-> <<>>,
     HandlerWrapper |-> "nil"]

\* what the option loop leaves behind: the RemoteContext as the options that
\* ran have set it, and whether one of them returned an error
OptFailed == [failed |-> TRUE, ctx |-> defaultRemoteContext]
OptResults == [failed : BOOLEAN, ctx : RemoteContexts]

With(f, v) == [failed |-> FALSE, ctx |-> [defaultRemoteContext EXCEPT ![f] = v]]

\* the inputs of the concurrent runs: one for every way out of the code that
\* runs before the first service call, and one that goes on
CoreFetchOpts ==
    {OptFailed, With("Unpack", FALSE), With("Unpack", TRUE), With("Platforms", <<"!">>)}
CorePushOpts ==
    {OptFailed, With("Platforms", <<"!">>)}
        \cup {With("MaxConcurrentUploadedLayers", n) : n \in {-1, 0, 1}}

\* the wrapper Push hands to PushContent: none, the caller's own function, or
\* the closure of lines 514-521 over the RemoteContext's handlers
NoWrapper == [kind |-> "nil", base |-> <<>>, hw |-> "nil"]

NoCall ==
    [op |-> "none", arg |-> <<>>, ref |-> <<>>, digest |-> <<>>,
     in |-> defaultRemoteContext, ctx |-> defaultRemoteContext,
     parsed |-> FALSE, lease |-> 0, created |-> 0, released |-> 0, net |-> 0,
     fetched |-> FALSE, image |-> <<>>, registered |-> 0,
     pusherRefs |-> <<>>, limiter |-> 0, inflight |-> 0, uploaded |-> 0,
     wrapper |-> NoWrapper, chain |-> <<>>,
     err |-> "nil"]

\* ------------------------------------------------------- platform matchers
Parse(s) ==
    IF s = "linux/amd64"
    THEN [ok |-> TRUE, platform |-> [OS |-> "linux", Architecture |-> "amd64"]]
    ELSE [ok |-> FALSE, platform |-> [OS |-> "", Architecture |-> ""]]

ParseAll(list) ==
    IF \E i \in 1..Len(list) : ~Parse(list[i]).ok
    THEN [err |-> "InvalidArgument", ps |-> <<>>]
    ELSE [err |-> "nil", ps |-> [i \in 1..Len(list) |-> Parse(list[i]).platform]]

MatchAll == [kind |-> "All", ps |-> <<>>]
MatchAny(ps) == [kind |-> "Any", ps |-> ps]

\* Fetch, lines 456-467: the matcher Fetch ends up with
FetchMatcher_ListFirst(rc) ==
    IF Len(rc.Platforms) = 0
    THEN IF rc.PlatformMatcher.kind = "nil"
         THEN [err |-> "nil", matcher |-> MatchAll, parsed |-> FALSE]
         ELSE [err |-> "nil", matcher |-> rc.PlatformMatcher, parsed |-> FALSE]
    ELSE LET r == ParseAll(rc.Platforms)
         IN  IF r.err # "nil"
             THEN [err |-> r.err, matcher |-> rc.PlatformMatcher, parsed |-> TRUE]
             ELSE [err |-> "nil", matcher |-> MatchAny(r.ps), parsed |-> TRUE]

FetchMatcher(rc) ==
    IF rc.PlatformMatcher.kind = "nil"
    THEN IF Len(rc.Platforms) = 0
         THEN [err |-> "nil", matcher |-> MatchAll, parsed |-> FALSE]
         ELSE LET r == ParseAll(rc.Platforms)
              IN  IF r.err # "nil"
                  THEN [err |-> r.err, matcher |-> rc.PlatformMatcher, parsed |-> TRUE]
                  ELSE [err |-> "nil", matcher |-> MatchAny(r.ps), parsed |-> TRUE]
    ELSE [err |-> "nil", matcher |-> rc.PlatformMatcher, parsed |-> FALSE]

PushMatcher_ParseErrorDropped(rc) ==
    IF rc.PlatformMatcher.kind = "nil"
    THEN IF Len(rc.Platforms) > 0
         THEN LET r == ParseAll(rc.Platforms)
              IN  [err |-> "nil", matcher |-> MatchAny(r.ps), parsed |-> TRUE]
         ELSE [err |-> "nil", matcher |-> MatchAll, parsed |-> FALSE]
    ELSE [err |-> "nil", matcher |-> rc.PlatformMatcher, parsed |-> FALSE]

\* Push, lines 490-500
PushMatcher(rc) ==
    IF rc.PlatformMatcher.kind = "nil"
    THEN IF Len(rc.Platforms) > 0
         THEN LET r == ParseAll(rc.Platforms)
              IN  IF r.err # "nil"
                  THEN [err |-> r.err, matcher |-> rc.PlatformMatcher, parsed |-> TRUE]
                  ELSE [err |-> "nil", matcher |-> MatchAny(r.ps), parsed |-> TRUE]
         ELSE [err |-> "nil", matcher |-> MatchAll, parsed |-> FALSE]
    ELSE [err |-> "nil", matcher |-> rc.PlatformMatcher, parsed |-> FALSE]

\* Fetch, lines 445-467: everything Fetch does before it asks for a lease.
\* The result is the error to return ("nil": go on) and the RemoteContext.
FetchPrepare_UnpackIgnored(o) ==
    IF o.failed
    THEN [err |-> "OptErr", ctx |-> o.ctx, parsed |-> FALSE]
    ELSE LET m == FetchMatcher(o.ctx)
         IN  [err |-> m.err,
              ctx |-> [o.ctx EXCEPT !.PlatformMatcher = m.matcher],
              parsed |-> m.parsed]

FetchPrepare(o) ==
    IF o.failed
    THEN [err |-> "OptErr", ctx |-> o.ctx, parsed |-> FALSE]
    ELSE IF o.ctx.Unpack
    THEN [err |-> "NotImplemented", ctx |-> o.ctx, parsed |-> FALSE]
    ELSE LET m == FetchMatcher(o.ctx)
         IN  [err |-> m.err,
              ctx |-> [o.ctx EXCEPT !.PlatformMatcher = m.matcher],
              parsed |-> m.parsed]

\* Push, lines 484-500
PushPrepare(o) ==
    IF o.failed
    THEN [err |-> "OptErr", ctx |-> o.ctx, parsed |-> FALSE]
    ELSE LET m == PushMatcher(o.ctx)
         IN  [err |-> m.err,
              ctx |-> [o.ctx EXCEPT !.PlatformMatcher = m.matcher],
              parsed |-> m.parsed]

\* strings.Contains(ref, "@")
Contains(ref, ch) == \E i \in 1..Len(ref) : ref[i] = ch

\* Push, lines 502-505: the reference the pusher is resolved with
PushRef_AlwaysAppend(ref, digest) == ref \o <<"@">> \o digest

PushRef(ref, digest) ==
    IF ~Contains(ref, "@") THEN ref \o <<"@">> \o digest ELSE ref

\* Push, lines 526-529: the capacity of the limiter handed to PushContent,
\* 0 standing for the nil limiter
PushLimiter_OffByOne(n) == IF n > 0 THEN n + 1 ELSE 0

PushLimiter(n) == IF n > 0 THEN n ELSE 0

\* a handler chain is written as the handlers in the order they run, a
\* wrapper before what it wraps
BuiltIn == "push"

\* images.Handlers(hs...): the handlers run one after the other
Handlers(hs) == hs

\* a caller's handler wrapper applied to a chain
Wrap(hw, chain) == <<hw>> \o chain

\* Push, lines 515-519: the body of the closure, applied to the handler h
PushWrapperClosure_WrapperInside(base, hw, h) ==
    IF hw # "nil" THEN Handlers(base \o Wrap(hw, <<h>>)) ELSE Handlers(Append(base, h))

PushWrapperClosure(base, hw, h) ==
    LET h1 == Handlers(Append(base, h))
    IN  IF hw # "nil" THEN Wrap(hw, h1) ELSE h1

\* Push, lines 512-524: the wrapper handed to PushContent
PushWrapper(rc) ==
    IF Len(rc.BaseHandlers) > 0
    THEN [kind |-> "closure", base |-> rc.BaseHandlers, hw |-> rc.HandlerWrapper]
    ELSE IF rc.HandlerWrapper # "nil"
    THEN [kind |-> "caller", base |-> <<>>, hw |-> rc.HandlerWrapper]
    ELSE NoWrapper

\* remotes.PushContent: the wrapper, if there is one, is applied to the
\* built-in handler
Apply(w, h) ==
    IF w.kind = "nil" THEN <<h>>
    ELSE IF w.kind = "caller" THEN Wrap(w.hw, <<h>>)
    ELSE PushWrapperClosure(w.base, w.hw, h)

\* ------------------------------------------------------------------ leases
\* WithLease: the leases service creates a lease (or fails); on success the
\* lease is attached to the call's context
LeaseCreated(p, id) ==
    /\ leases' = leases \cup {id}
    /\ leaseStats' = [leaseStats EXCEPT !.creates = @ + 1]

\* the release function WithLease returns: it deletes the call's lease
LeaseReleased(p) ==
    /\ leases' = leases \ {call[p].lease}
    /\ leaseStats' = [leaseStats EXCEPT !.deletes = @ + 1]

\* the release function of a lease given by its id
LeaseDeleted(id) ==
    /\ leases' = leases \ {id}
    /\ leaseStats' = [leaseStats EXCEPT !.deletes = @ + 1]

\* createNewImage: the image store registers a record under the name
ImageCreated(name) == images' = images \cup {name}

\* --------------------------------------------------------------------- Fetch
Fetch(p, ref, o) ==
    /\ pc[p] = "idle"
    /\ ncalls < MaxCalls
    /\ ncalls' = ncalls + 1
    /\ LET r == FetchPrepare(o)
       IN  /\ call' = [call EXCEPT ![p] =
                  [NoCall EXCEPT !.op = "Fetch", !.arg = ref, !.ref = ref,
                                 !.in = o.ctx, !.ctx = r.ctx, !.parsed = r.parsed, !.err = r.err]]
           /\ pc' = [pc EXCEPT ![p] = IF r.err # "nil" THEN "done" ELSE "fetch_lease"]
    /\ UNCHANGED <<leases, leaseStats, images, sems, containers, clientVars>>

\* lines 469-473: ctx, done, err := c.WithLease(ctx); defer done(ctx)
FetchWithLease(p) ==
    /\ pc[p] = "fetch_lease"
    /\ \/ /\ LeaseCreated(p, leaseStats.creates + 1)
          /\ call' = [call EXCEPT ![p].lease = leaseStats.creates + 1,
                                  ![p].created = @ + 1, ![p].net = @ + 1]
          /\ pc' = [pc EXCEPT ![p] = "fetch_fetch"]
       \/ /\ call' = [call EXCEPT ![p].err = "LeaseErr", ![p].net = @ + 1]
          /\ pc' = [pc EXCEPT ![p] = "done"]
          /\ UNCHANGED <<leases, leaseStats, containers, clientVars>>
    /\ UNCHANGED <<ncalls, images, sems, containers, clientVars>>

\* lines 475-478: img, err := c.fetch(ctx, fetchCtx, ref, 0)
FetchFetch_ErrIgnored(p, ds) ==
    /\ pc[p] = "fetch_fetch"
    /\ \/ \E d \in ds :
             call' = [call EXCEPT ![p].fetched = TRUE, ![p].image = d, ![p].net = @ + 1]
       \/ call' = [call EXCEPT ![p].err = "FetchErr", ![p].net = @ + 1]
    /\ pc' = [pc EXCEPT ![p] = "fetch_create"]
    /\ UNCHANGED <<ncalls, leases, leaseStats, images, sems, containers, clientVars>>

FetchFetch_NoDefer(p, ds) ==
    /\ pc[p] = "fetch_fetch"
    /\ \/ /\ \E d \in ds :
                call' = [call EXCEPT ![p].fetched = TRUE, ![p].image = d, ![p].net = @ + 1]
          /\ pc' = [pc EXCEPT ![p] = "fetch_create"]
       \/ /\ call' = [call EXCEPT ![p].err = "FetchErr", ![p].net = @ + 1]
          /\ pc' = [pc EXCEPT ![p] = "done"]
    /\ UNCHANGED <<ncalls, leases, leaseStats, images, sems, containers, clientVars>>

FetchFetch(p, ds) ==
    /\ pc[p] = "fetch_fetch"
    /\ \/ /\ \E d \in ds :
                call' = [call EXCEPT ![p].fetched = TRUE, ![p].image = d, ![p].net = @ + 1]
          /\ pc' = [pc EXCEPT ![p] = "fetch_create"]
       \/ /\ call' = [call EXCEPT ![p].err = "FetchErr", ![p].net = @ + 1]
          /\ pc' = [pc EXCEPT ![p] = "fetch_done"]
    /\ UNCHANGED <<ncalls, leases, leaseStats, images, sems, containers, clientVars>>

\* line 479: return c.createNewImage(ctx, img)
FetchCreateNewImage_NoDefer(p) ==
    /\ pc[p] = "fetch_create"
    /\ \/ /\ ImageCreated(call[p].ref)
          /\ call' = [call EXCEPT ![p].registered = @ + 1, ![p].net = @ + 1]
          /\ pc' = [pc EXCEPT ![p] = "fetch_done"]
       \/ /\ call' = [call EXCEPT ![p].err = "CreateErr", ![p].net = @ + 1]
          /\ pc' = [pc EXCEPT ![p] = "done"]
          /\ UNCHANGED images
    /\ UNCHANGED <<ncalls, leases, leaseStats, sems, containers, clientVars>>

FetchCreateNewImage(p) ==
    /\ pc[p] = "fetch_create"
    /\ \/ /\ ImageCreated(call[p].ref)
          /\ call' = [call EXCEPT ![p].registered = @ + 1, ![p].net = @ + 1]
       \/ /\ call' = [call EXCEPT ![p].err = "CreateErr", ![p].net = @ + 1]
          /\ UNCHANGED images
    /\ pc' = [pc EXCEPT ![p] = "fetch_done"]
    /\ UNCHANGED <<ncalls, leases, leaseStats, sems, containers, clientVars>>

\* line 473, run as Fetch returns: done(ctx)
FetchDone(p) ==
    /\ pc[p] = "fetch_done"
    /\ LeaseReleased(p)
    /\ call' = [call EXCEPT ![p].released = @ + 1]
    /\ pc' = [pc EXCEPT ![p] = "done"]
    /\ UNCHANGED <<ncalls, images, sems, containers, clientVars>>

\* ---------------------------------------------------------------------- Push
Push(p, ref, digest, o) ==
    /\ pc[p] = "idle"
    /\ ncalls < MaxCalls
    /\ ncalls' = ncalls + 1
    /\ LET r == PushPrepare(o)
       IN  /\ call' = [call EXCEPT ![p] =
                  [NoCall EXCEPT !.op = "Push", !.arg = ref, !.digest = digest,
                                 !.ref = IF r.err = "nil" THEN PushRef(ref, digest) ELSE ref,
                                 !.in = o.ctx, !.ctx = r.ctx, !.parsed = r.parsed, !.err = r.err]]
           /\ pc' = [pc EXCEPT ![p] = IF r.err # "nil" THEN "done" ELSE "push_pusher"]
    /\ UNCHANGED <<leases, leaseStats, images, sems, containers, clientVars>>

\* lines 507-531: the pusher is resolved, the wrapper and the limiter are
\* made, and PushContent is entered, where the wrapper is applied
PushPusher(p) ==
    /\ pc[p] = "push_pusher"
    /\ \/ /\ LET n == PushLimiter(call[p].ctx.MaxConcurrentUploadedLayers)
             IN  IF n > 0
                 THEN /\ sems' = Append(sems, [cap |-> n, held |-> 0])
                      /\ call' = [call EXCEPT ![p].pusherRefs = Append(@, call[p].ref),
                                              ![p].net = @ + 1,
                                              ![p].limiter = Len(sems) + 1,
                                              ![p].wrapper = PushWrapper(call[p].ctx),
                                              ![p].chain = Apply(PushWrapper(call[p].ctx), BuiltIn)]
                 ELSE /\ sems' = sems
                      /\ call' = [call EXCEPT ![p].pusherRefs = Append(@, call[p].ref),
                                              ![p].net = @ + 1,
                                              ![p].wrapper = PushWrapper(call[p].ctx),
                                              ![p].chain = Apply(PushWrapper(call[p].ctx), BuiltIn)]
          /\ pc' = [pc EXCEPT ![p] = "push_content"]
       \/ /\ call' = [call EXCEPT ![p].pusherRefs = Append(@, call[p].ref),
                                  ![p].net = @ + 1, ![p].err = "PusherErr"]
          /\ pc' = [pc EXCEPT ![p] = "done"]
          /\ UNCHANGED sems
    /\ UNCHANGED <<ncalls, leases, leaseStats, images, containers, clientVars>>

\* line 531, remotes.PushContent: one upload starts, once the limiter (if
\* any) lets it through
UploadStart(p) ==
    /\ pc[p] = "push_content"
    /\ call[p].inflight + call[p].uploaded < NumLayers
    /\ IF call[p].limiter = 0
       THEN sems' = sems
       ELSE /\ sems[call[p].limiter].held < sems[call[p].limiter].cap
            /\ sems' = [sems EXCEPT ![call[p].limiter].held = @ + 1]
    /\ call' = [call EXCEPT ![p].inflight = @ + 1]
    /\ UNCHANGED <<pc, ncalls, leases, leaseStats, images, containers, clientVars>>

\* remotes.PushContent: one upload ends and gives its place back
UploadFinish(p) ==
    /\ pc[p] = "push_content"
    /\ call[p].inflight > 0
    /\ IF call[p].limiter = 0
       THEN sems' = sems
       ELSE sems' = [sems EXCEPT ![call[p].limiter].held = @ - 1]
    /\ call' = [call EXCEPT ![p].inflight = @ - 1, ![p].uploaded = @ + 1]
    /\ UNCHANGED <<pc, ncalls, leases, leaseStats, images, containers, clientVars>>

\* line 531: remotes.PushContent returns, and Push with it
PushContentReturn(p) ==
    /\ pc[p] = "push_content"
    /\ call[p].inflight = 0
    /\ \/ /\ call[p].uploaded = NumLayers
          /\ call' = call
       \/ call' = [call EXCEPT ![p].err = "PushErr"]
    /\ pc' = [pc EXCEPT ![p] = "done"]
    /\ UNCHANGED <<ncalls, leases, leaseStats, images, sems, containers, clientVars>>

\* the caller takes the result; the goroutine is free for its next call
Return(p) ==
    /\ pc[p] = "done"
    /\ pc' = [pc EXCEPT ![p] = "idle"]
    /\ call' = [call EXCEPT ![p] = NoCall]
    /\ UNCHANGED <<ncalls, leases, leaseStats, images, sems, containers, clientVars>>

\* -------------------------------------------------------------- the client
\* the override slots of the services struct the model follows
Caps == {"namespaceStore", "containerStore", "introspectionService"}

DefaultRuntime == "io.containerd.runc.v2"
RuntimeLabels == {"rt.a", "rt.b"}

DefaultSnapshotter == "overlayfs"
SnapshotterLabels == {"sn.a", "sn.b"}

\* services.snapshotters: a nil map, or a map with snapshotters under names
NoSnapshotters == [has |-> FALSE, names |-> {}]
SnapshotterMaps ==
    {NoSnapshotters} \cup {[has |-> TRUE, names |-> N] : N \in SUBSET {"sn.a"}}

\* services.sandboxers: a nil map, or a map with controllers under names
NoSandboxers == [has |-> FALSE, names |-> {}]
SandboxerMaps ==
    {NoSandboxers} \cup {[has |-> TRUE, names |-> N] : N \in SUBSET {"sb.a"}}

ClientOpts ==
    [address : {"", "addr"}, defaultRuntime : {"", "rt.x"}, defaultns : {"", "ns"},
     hasServices : BOOLEAN, services : SUBSET Caps, snapshotters : SnapshotterMaps,
     sandboxers : SandboxerMaps]

NoClient ==
    [conn |-> 0, connector |-> FALSE, defaultns |-> "", services |-> {},
     snapshotters |-> NoSnapshotters, sandboxers |-> NoSandboxers, runtime |-> ""]

\* New, lines 101-176; dialOK: whether the connector's first dial succeeds
New_NoCheck(o, dialOK) ==
    LET c0 == [NoClient EXCEPT !.defaultns = o.defaultns,
                               !.runtime = o.defaultRuntime,
                               !.services = IF o.hasServices THEN o.services ELSE {},
                               !.snapshotters = IF o.hasServices THEN o.snapshotters
                                                ELSE NoSnapshotters,
                               !.sandboxers = IF o.hasServices THEN o.sandboxers
                                              ELSE NoSandboxers]
    IN  IF o.address = ""
        THEN [err |-> "nil", client |-> c0]
        ELSE IF ~dialOK
        THEN [err |-> "DialErr", client |-> NoClient]
        ELSE [err |-> "nil", client |-> [c0 EXCEPT !.conn = 1, !.connector = TRUE]]

New(o, dialOK) ==
    LET c0 == [NoClient EXCEPT !.defaultns = o.defaultns,
                               !.runtime = o.defaultRuntime,
                               !.services = IF o.hasServices THEN o.services ELSE {},
                               !.snapshotters = IF o.hasServices THEN o.snapshotters
                                                ELSE NoSnapshotters,
                               !.sandboxers = IF o.hasServices THEN o.sandboxers
                                              ELSE NoSandboxers]
        c1 == IF o.address # ""
              THEN [c0 EXCEPT !.conn = 1, !.connector = TRUE]
              ELSE c0
    IN  IF o.address # "" /\ ~dialOK
        THEN [err |-> "DialErr", client |-> NoClient]
        ELSE IF ~o.hasServices /\ c1.conn = 0
        THEN [err |-> "Unavailable", client |-> NoClient]
        ELSE [err |-> "nil", client |-> c1]

\* NewWithConn, lines 180-206
NewWithConn(conn, o) ==
    [err |-> "nil",
     client |-> [NoClient EXCEPT !.conn = conn,
                                 !.defaultns = o.defaultns,
                                 !.runtime = o.defaultRuntime,
                                 !.services = IF o.hasServices THEN o.services ELSE {},
                               !.snapshotters = IF o.hasServices THEN o.snapshotters
                                                ELSE NoSnapshotters,
                               !.sandboxers = IF o.hasServices THEN o.sandboxers
                                              ELSE NoSandboxers]]

\* locked: the call has taken c.connMu; start, swapped: the connection
\* installed, and the connections replaced so far, when the call began;
\* held: the leases the call holds, the latest last; leased, freed: how many
\* it has acquired and released; ctr: the containers it has created
NoFrame ==
    [op |-> "none", cap |-> "", bound |-> 0, local |-> FALSE, seen |-> {},
     prev |-> 0, half |-> FALSE, cached |-> "", label |-> "", looked |-> 0,
     result |-> "", err |-> "nil", locked |-> FALSE, start |-> 0, swapped |-> {},
     name |-> "", calls |-> 0, hasNS |-> FALSE, found |-> "", plugins |-> 0,
     held |-> <<>>, leased |-> 0, freed |-> 0, decoded |-> FALSE, ctr |-> 0]

\* retired: the connections a returned Reconnect found installed; replaced:
\* those of them a Reconnect put a new connection in the place of; made,
\* madeErr, madeConn: the constructor call that was seen to return, its
\* error and the connection it was handed ("none": the client was given)
NoHist ==
    [retired |-> {}, replaced |-> {}, returned |-> {}, returnedOK |-> {},
     lookups |-> 0, failed |-> 0, closeCalled |-> FALSE, resolved |-> {},
     made |-> "none", madeErr |-> "nil", madeConn |-> 0]

Begin(p, f) ==
    /\ pc[p] = "idle"
    /\ ncalls < MaxCalls
    /\ ncalls' = ncalls + 1
    /\ frame' = [frame EXCEPT ![p] = f]

\* Reconnect, lines 227-229
Reconnect_NoCheck(p) ==
    /\ Begin(p, [NoFrame EXCEPT !.op = "Reconnect"])
    /\ pc' = [pc EXCEPT ![p] = "rc_lock"]
    /\ UNCHANGED <<transferVars, copts, client, connMu, runtimeMu, closed, dials, hist>>

Reconnect(p) ==
    /\ Begin(p, [NoFrame EXCEPT !.op = "Reconnect",
                                !.err = IF client.connector THEN "nil" ELSE "Unavailable"])
    /\ pc' = [pc EXCEPT ![p] = IF client.connector THEN "rc_lock" ELSE "done"]
    /\ UNCHANGED <<transferVars, copts, client, connMu, runtimeMu, closed, dials, hist>>

\* line 230: c.connMu.Lock()
ReconnectLock(p) ==
    /\ pc[p] = "rc_lock"
    /\ connMu = 0
    /\ connMu' = p
    /\ frame' = [frame EXCEPT ![p].prev = client.conn, ![p].locked = TRUE]
    /\ pc' = [pc EXCEPT ![p] = "rc_close"]
    /\ UNCHANGED <<ncalls, transferVars, copts, client, runtimeMu, closed, dials, hist>>

\* line 232: c.conn.Close()
ReconnectClose(p) ==
    /\ pc[p] = "rc_close"
    /\ closed' = closed \cup {client.conn}
    /\ pc' = [pc EXCEPT ![p] = "rc_dial"]
    /\ UNCHANGED <<ncalls, transferVars, copts, client, connMu, runtimeMu, dials, frame, hist>>

\* lines 233-237: conn, err := c.connector(); c.conn = conn unless err
ReconnectDial(p) ==
    /\ pc[p] = "rc_dial"
    /\ \/ /\ dials' = dials + 1
          /\ client' = [client EXCEPT !.conn = dials + 1]
          /\ UNCHANGED frame
       \/ /\ frame' = [frame EXCEPT ![p].err = "DialErr"]
          /\ UNCHANGED <<dials, client>>
    /\ pc' = [pc EXCEPT ![p] = "rc_unlock"]
    /\ UNCHANGED <<ncalls, transferVars, copts, connMu, runtimeMu, closed, hist>>

\* line 231, run as Reconnect returns: c.connMu.Unlock()
ReconnectUnlock(p) ==
    /\ pc[p] = "rc_unlock"
    /\ connMu' = 0
    /\ hist' = [hist EXCEPT !.retired = @ \cup {frame[p].prev},
                            !.replaced = IF frame[p].err = "nil"
                                         THEN @ \cup {frame[p].prev} ELSE @]
    /\ pc' = [pc EXCEPT ![p] = "done"]
    /\ UNCHANGED <<ncalls, transferVars, copts, client, runtimeMu, closed, dials, frame>>

\* Close, line 642: c.connMu.Lock()
Close(p) ==
    /\ Begin(p, [NoFrame EXCEPT !.op = "Close"])
    /\ pc' = [pc EXCEPT ![p] = "cl_lock"]
    /\ UNCHANGED <<transferVars, copts, client, connMu, runtimeMu, closed, dials, hist>>

CloseLock(p) ==
    /\ pc[p] = "cl_lock"
    /\ connMu = 0
    /\ connMu' = p
    /\ frame' = [frame EXCEPT ![p].locked = TRUE]
    /\ pc' = [pc EXCEPT ![p] = "cl_close"]
    /\ UNCHANGED <<ncalls, transferVars, copts, client, runtimeMu, closed, dials, hist>>

\* lines 643-647: the connection, if any, is closed; the lock is released
CloseConn(p) ==
    /\ pc[p] = "cl_close"
    /\ closed' = IF client.conn # 0 THEN closed \cup {client.conn} ELSE closed
    /\ connMu' = 0
    /\ hist' = [hist EXCEPT !.closeCalled = TRUE]
    /\ pc' = [pc EXCEPT ![p] = "done"]
    /\ UNCHANGED <<ncalls, transferVars, copts, client, runtimeMu, dials, frame>>

\* a service accessor with an override slot (ContainerService, lines
\* 661-668, and its like): the override is returned if there is one
Service_OverrideIgnored(p, cap) ==
    /\ Begin(p, [NoFrame EXCEPT !.op = "Service", !.cap = cap,
                                !.seen = hist.retired, !.swapped = hist.replaced,
                                !.start = client.conn])
    /\ pc' = [pc EXCEPT ![p] = "sv_lock"]
    /\ UNCHANGED <<transferVars, copts, client, connMu, runtimeMu, closed, dials, hist>>

Service(p, cap) ==
    /\ Begin(p, [NoFrame EXCEPT !.op = "Service", !.cap = cap,
                                !.local = cap \in client.services,
                                !.seen = hist.retired, !.swapped = hist.replaced,
                                !.start = client.conn])
    /\ pc' = [pc EXCEPT ![p] = IF cap \in client.services THEN "done" ELSE "sv_lock"]
    /\ UNCHANGED <<transferVars, copts, client, connMu, runtimeMu, closed, dials, hist>>

\* Conn, lines 805-809: no override slot
Conn(p) ==
    /\ Begin(p, [NoFrame EXCEPT !.op = "Conn", !.seen = hist.retired,
                                !.swapped = hist.replaced, !.start = client.conn])
    /\ pc' = [pc EXCEPT ![p] = "sv_lock"]
    /\ UNCHANGED <<transferVars, copts, client, connMu, runtimeMu, closed, dials, hist>>

\* HealthService, lines 750-754: no override slot either
HealthService(p) ==
    /\ Begin(p, [NoFrame EXCEPT !.op = "Health", !.seen = hist.retired,
                                !.swapped = hist.replaced, !.start = client.conn])
    /\ pc' = [pc EXCEPT ![p] = "sv_lock"]
    /\ UNCHANGED <<transferVars, copts, client, connMu, runtimeMu, closed, dials, hist>>

\* c.connMu.Lock() in an accessor
ServiceLock(p) ==
    /\ pc[p] = "sv_lock"
    /\ connMu = 0
    /\ connMu' = p
    /\ frame' = [frame EXCEPT ![p].locked = TRUE]
    /\ pc' = [pc EXCEPT ![p] = "sv_bind"]
    /\ UNCHANGED <<ncalls, transferVars, copts, client, runtimeMu, closed, dials, hist>>

\* a connection is half-swapped while a Reconnect has closed it and not yet
\* put the new one in its place
HalfSwapped == \E q \in Procs : pc[q] = "rc_dial"

\* the handle is bound to c.conn as it is now; the lock is released
ServiceBind(p) ==
    /\ pc[p] = "sv_bind"
    /\ frame' = [frame EXCEPT ![p].bound = client.conn, ![p].half = HalfSwapped]
    /\ connMu' = IF connMu = p THEN 0 ELSE connMu
    /\ pc' = [pc EXCEPT ![p] = "done"]
    /\ UNCHANGED <<ncalls, transferVars, copts, client, runtimeMu, closed, dials, hist>>

\* ------------------------------------------------------------ constructors
\* a caller's call of New(copts.address, opts...); dialOK: whether the
\* connector's dial succeeds
CallNew(dialOK) ==
    /\ hist.made = "none"
    /\ LET r == New(copts, dialOK)
       IN  /\ client' = r.client
           /\ dials' = IF r.client.conn # 0 THEN 1 ELSE 0
           /\ hist' = [hist EXCEPT !.made = "New", !.madeErr = r.err]
    /\ UNCHANGED <<pc, ncalls, transferVars, copts, connMu, runtimeMu, closed, frame>>

\* a caller's call of NewWithConn(conn, opts...)
CallNewWithConn(conn) ==
    /\ hist.made = "none"
    /\ LET r == NewWithConn(conn, copts)
       IN  /\ client' = r.client
           /\ dials' = IF r.client.conn # 0 THEN 1 ELSE 0
           /\ hist' = [hist EXCEPT !.made = "NewWithConn", !.madeErr = r.err,
                                   !.madeConn = conn]
    /\ UNCHANGED <<pc, ncalls, transferVars, copts, connMu, runtimeMu, closed, frame>>

\* a constructor has returned a client
Made == hist.made # "none" /\ hist.madeErr = "nil"

\* --------------------------------------------- Version, Server, IsServing
\* the capability each of them goes on to use, "" where the accessor has no
\* override slot (VersionService, HealthService)
Required(op) == IF op = "Server" THEN "introspectionService" ELSE ""

\* Version (820), Server (843), IsServing (276) are entered
Checked(p, op) ==
    /\ Made
    /\ Begin(p, [NoFrame EXCEPT !.op = op, !.cap = Required(op)])
    /\ pc' = [pc EXCEPT ![p] = "ck_lock"]
    /\ UNCHANGED <<transferVars, copts, client, connMu, runtimeMu, closed, dials, hist>>

\* lines 821, 844, 277: c.connMu.Lock()
CheckedLock(p) ==
    /\ pc[p] = "ck_lock"
    /\ connMu = 0
    /\ connMu' = p
    /\ frame' = [frame EXCEPT ![p].locked = TRUE]
    /\ pc' = [pc EXCEPT ![p] = "ck_conn"]
    /\ UNCHANGED <<ncalls, transferVars, copts, client, runtimeMu, closed, dials, hist>>

CheckedConn_EarlyReturnKeepsLock(p) ==
    /\ pc[p] = "ck_conn"
    /\ IF client.conn = 0
       THEN /\ frame' = [frame EXCEPT ![p].err = "Unavailable"]
            /\ pc' = [pc EXCEPT ![p] = "done"]
            /\ UNCHANGED connMu
       ELSE /\ frame' = frame
            /\ pc' = [pc EXCEPT ![p] = "ck_service"]
            /\ connMu' = 0
    /\ UNCHANGED <<ncalls, transferVars, copts, client, runtimeMu, closed, dials, hist>>

\* lines 822-826, 845-849, 278-282: under the lock, c.conn == nil is an
\* Unavailable error; the lock is released on both ways out
CheckedConn(p) ==
    /\ pc[p] = "ck_conn"
    /\ connMu' = 0
    /\ IF client.conn = 0
       THEN /\ frame' = [frame EXCEPT ![p].err = "Unavailable"]
            /\ pc' = [pc EXCEPT ![p] = "done"]
       ELSE /\ frame' = frame
            /\ pc' = [pc EXCEPT ![p] = "ck_service"]
    /\ UNCHANGED <<ncalls, transferVars, copts, client, runtimeMu, closed, dials, hist>>

\* lines 827, 851, 283: c.VersionService(), c.IntrospectionService(),
\* c.HealthService(); only the second has an override slot
CheckedService(p) ==
    /\ pc[p] = "ck_service"
    /\ IF frame[p].cap \in client.services
       THEN /\ frame' = [frame EXCEPT ![p].local = TRUE]
            /\ pc' = [pc EXCEPT ![p] = "ck_call"]
            /\ UNCHANGED connMu
       ELSE /\ connMu = 0
            /\ connMu' = p
            /\ pc' = [pc EXCEPT ![p] = "ck_bind"]
            /\ UNCHANGED frame
    /\ UNCHANGED <<ncalls, transferVars, copts, client, runtimeMu, closed, dials, hist>>

CheckedBind(p) ==
    /\ pc[p] = "ck_bind"
    /\ frame' = [frame EXCEPT ![p].bound = client.conn]
    /\ connMu' = 0
    /\ pc' = [pc EXCEPT ![p] = "ck_call"]
    /\ UNCHANGED <<ncalls, transferVars, copts, client, runtimeMu, closed, dials, hist>>

PluginOps == {"GetSnapshotterSupportedPlatforms", "GetSnapshotterCapabilities"}

\* what the service answers: an error, or a response; for Plugins the
\* response lists the plugins that matched the filter
Responses == [err : {"nil", "RemoteErr"}, plugins : 0..1]

\* the error the caller is returned; lines 902-904 and 933-935 make an error
\* that wraps none of the errdefs errors ("Unknown") of an empty list
Returned(op, r) ==
    IF r.err # "nil" THEN r.err
    ELSE IF op \in PluginOps /\ r.plugins <= 0 THEN "Unknown"
    ELSE "nil"

\* the call of the service: Version, Server, Check or Plugins
CheckedCall(p) ==
    /\ pc[p] = "ck_call"
    /\ \E r \in Responses :
           frame' = [frame EXCEPT ![p].calls = @ + 1,
                                  ![p].err = Returned(frame[p].op, r),
                                  ![p].plugins = IF frame[p].op \in PluginOps /\ r.err = "nil"
                                                 THEN r.plugins ELSE 0]
    /\ pc' = [pc EXCEPT ![p] = "done"]
    /\ UNCHANGED <<ncalls, transferVars, copts, client, connMu, runtimeMu, closed, dials, hist>>

\* lines 894-895 and 925-926: the filter is built, c.IntrospectionService()
\* is next
GetSnapshotterPlugin(p, op, name) ==
    /\ Begin(p, [NoFrame EXCEPT !.op = op, !.name = name, !.cap = "introspectionService"])
    /\ pc' = [pc EXCEPT ![p] = "ck_service"]
    /\ UNCHANGED <<transferVars, copts, client, connMu, runtimeMu, closed, dials, hist>>

GetSnapshotterSupportedPlatforms(p, name) ==
    GetSnapshotterPlugin(p, "GetSnapshotterSupportedPlatforms", name)

GetSnapshotterCapabilities(p, name) ==
    GetSnapshotterPlugin(p, "GetSnapshotterCapabilities", name)

\* ------------------------------------------------------------- snapshotters
SnapshotterOps == {"resolveSnapshotterName", "SnapshotService", "getSnapshotter"}

SnapshotterLabelOutcomes ==
    {[err |-> "LabelErr", label |-> ""], [err |-> "nil", label |-> ""]}
        \cup {[err |-> "nil", label |-> l] : l \in SnapshotterLabels}

\* resolveSnapshotterName, lines 860-875; out: what GetLabel gives, which
\* is read only when the name is empty
SnapshotterName_DefaultFirst(name, out) ==
    IF name # "" THEN [result |-> name, err |-> "nil"]
    ELSE IF out.err # "nil" THEN [result |-> "", err |-> out.err]
    ELSE [result |-> DefaultSnapshotter, err |-> "nil"]

SnapshotterName(name, out) ==
    IF name # "" THEN [result |-> name, err |-> "nil"]
    ELSE IF out.err # "nil" THEN [result |-> "", err |-> out.err]
    ELSE IF out.label # "" THEN [result |-> out.label, err |-> "nil"]
    ELSE [result |-> DefaultSnapshotter, err |-> "nil"]

\* SnapshotService, lines 682-685: an error of the resolution is dropped and
\* the compiled-in default taken
Settled(op, r) ==
    IF op = "SnapshotService" /\ r.err # "nil"
    THEN [result |-> DefaultSnapshotter, err |-> "nil"]
    ELSE r

\* where a call goes once the name is resolved: resolveSnapshotterName
\* returns, getSnapshotter returns an error (lines 879-881)
AfterResolve(op, err) ==
    IF op = "resolveSnapshotterName" \/ (op = "getSnapshotter" /\ err # "nil")
    THEN "done"
    ELSE "ss_pick"

\* a call that begins by resolving the name; hasNS: the context carries a
\* namespace. GetLabel, lines 611-617, fails without calling the service
\* when neither the context nor the client has a namespace.
SnapshotterCall(p, op, name, hasNS) ==
    /\ LET nons == [err |-> "NamespaceRequired", label |-> ""]
           direct == name # "" \/ (~hasNS /\ client.defaultns = "")
           r == Settled(op, SnapshotterName(name, nons))
       IN  /\ Begin(p, [NoFrame EXCEPT !.op = op, !.name = name, !.hasNS = hasNS,
                                       !.looked = IF name = "" THEN 1 ELSE 0,
                                       !.result = IF direct THEN r.result ELSE "",
                                       !.err = IF direct THEN r.err ELSE "nil"])
           /\ pc' = [pc EXCEPT ![p] = IF direct THEN AfterResolve(op, r.err)
                                      ELSE "gl_service"]
    /\ UNCHANGED <<transferVars, copts, client, connMu, runtimeMu, closed, dials, hist>>

resolveSnapshotterName(p, name, hasNS) ==
    SnapshotterCall(p, "resolveSnapshotterName", name, hasNS)

\* line 682: the name is resolved in context.Background()
SnapshotService(p, name) == SnapshotterCall(p, "SnapshotService", name, FALSE)

\* getSnapshotter, lines 877-889
getSnapshotter(p, name, hasNS) == SnapshotterCall(p, "getSnapshotter", name, hasNS)

\* SnapshotService, lines 686-690: the snapshotter is taken from the map of
\* overrides if there is one (nil when the name is not in it); getSnapshotter,
\* lines 884-886, makes NotFound of nil
SnapshotPick(p) ==
    /\ pc[p] = "ss_pick"
    /\ IF client.snapshotters.has
       THEN LET s == IF frame[p].result \in client.snapshotters.names
                     THEN "local" ELSE "nil"
            IN  /\ frame' = [frame EXCEPT ![p].found = s, ![p].local = TRUE,
                                          ![p].err = IF frame[p].op = "getSnapshotter" /\ s = "nil"
                                                     THEN "NotFound" ELSE @]
                /\ pc' = [pc EXCEPT ![p] = "done"]
                /\ UNCHANGED connMu
       ELSE /\ connMu = 0
            /\ connMu' = p
            /\ frame' = [frame EXCEPT ![p].locked = TRUE]
            /\ pc' = [pc EXCEPT ![p] = "ss_bind"]
    /\ UNCHANGED <<ncalls, transferVars, copts, client, runtimeMu, closed, dials, hist>>

\* line 691: a proxy is made on c.conn; the lock is released
SnapshotBind(p) ==
    /\ pc[p] = "ss_bind"
    /\ frame' = [frame EXCEPT ![p].bound = client.conn, ![p].found = "remote"]
    /\ connMu' = 0
    /\ pc' = [pc EXCEPT ![p] = "done"]
    /\ UNCHANGED <<ncalls, transferVars, copts, client, runtimeMu, closed, dials, hist>>

\* SandboxController, lines 777-779: the name is used as it was given; the
\* controller is taken from the map of overrides if there is one (nil when
\* the name is not in it)
SandboxController(p, name) ==
    /\ Begin(p, [NoFrame EXCEPT !.op = "SandboxController", !.name = name,
                                !.result = name])
    /\ pc' = [pc EXCEPT ![p] = "sb_pick"]
    /\ UNCHANGED <<transferVars, copts, client, connMu, runtimeMu, closed, dials, hist>>

\* lines 778-781
SandboxPick(p) ==
    /\ pc[p] = "sb_pick"
    /\ IF client.sandboxers.has
       THEN /\ frame' = [frame EXCEPT ![p].found = IF frame[p].result \in client.sandboxers.names
                                                   THEN "local" ELSE "nil",
                                      ![p].local = TRUE]
            /\ pc' = [pc EXCEPT ![p] = "done"]
            /\ UNCHANGED connMu
       ELSE /\ connMu = 0
            /\ connMu' = p
            /\ frame' = [frame EXCEPT ![p].locked = TRUE]
            /\ pc' = [pc EXCEPT ![p] = "sb_bind"]
    /\ UNCHANGED <<ncalls, transferVars, copts, client, runtimeMu, closed, dials, hist>>

\* line 783: a proxy is made on c.conn under the name; the lock is released
SandboxBind(p) ==
    /\ pc[p] = "sb_bind"
    /\ frame' = [frame EXCEPT ![p].bound = client.conn, ![p].found = "remote"]
    /\ connMu' = 0
    /\ pc' = [pc EXCEPT ![p] = "done"]
    /\ UNCHANGED <<ncalls, transferVars, copts, client, runtimeMu, closed, dials, hist>>

\* the caller takes the result of a call: the names that resolutions of the
\* empty name returned are kept
SnapshotterReturn(p) ==
    /\ pc[p] = "done"
    /\ hist' = [hist EXCEPT !.resolved =
                    IF frame[p].op = "resolveSnapshotterName" /\ frame[p].name = ""
                           /\ frame[p].err = "nil"
                    THEN @ \cup {frame[p].result} ELSE @]
    /\ frame' = [frame EXCEPT ![p] = NoFrame]
    /\ pc' = [pc EXCEPT ![p] = "idle"]
    /\ UNCHANGED <<ncalls, transferVars, copts, client, connMu, runtimeMu, closed, dials>>

\* the caller takes the result of a call on the client
ClientReturn(p) ==
    /\ pc[p] = "done"
    /\ pc' = [pc EXCEPT ![p] = "idle"]
    /\ frame' = [frame EXCEPT ![p] = NoFrame]
    /\ UNCHANGED <<ncalls, transferVars, copts, client, connMu, runtimeMu, closed, dials, hist>>

\* ----------------------------------------------------- NewContainer, Restore
ContainerOps == {"NewContainer", "Restore"}
ContainerIds == {"c1"}

\* where NewContainer returns to: its caller, or Restore (line 575)
AfterNewContainer(op) == IF op = "Restore" THEN "rs_done" ELSE "done"

\* NewContainer, line 305
NewContainer(p, id) ==
    /\ Begin(p, [NoFrame EXCEPT !.op = "NewContainer", !.name = id])
    /\ pc' = [pc EXCEPT ![p] = "nc_lease"]
    /\ UNCHANGED <<transferVars, copts, client, connMu, runtimeMu, closed, dials, hist>>

\* lines 308-312: ctx, done, err := c.WithLease(ctx); defer done(ctx). The
\* leases service is reached through c.conn, read under the connection lock.
NewContainerWithLease(p) ==
    /\ pc[p] = "nc_lease"
    /\ connMu = 0
    /\ \/ /\ LeaseCreated(p, leaseStats.creates + 1)
          /\ frame' = [frame EXCEPT ![p].held = Append(@, leaseStats.creates + 1),
                                    ![p].leased = @ + 1]
          /\ pc' = [pc EXCEPT ![p] = "dr_lock"]
       \/ /\ frame' = [frame EXCEPT ![p].err = "LeaseErr"]
          /\ pc' = [pc EXCEPT ![p] = AfterNewContainer(frame[p].op)]
          /\ UNCHANGED <<leases, leaseStats>>
    /\ UNCHANGED <<ncalls, call, images, sems, containers, copts, client, connMu,
                   runtimeMu, closed, dials, hist>>

\* lines 325-329: the options are applied to the container
NewContainerOpts(p) ==
    /\ pc[p] = "nc_opts"
    /\ \/ /\ frame' = frame
          /\ pc' = [pc EXCEPT ![p] = "nc_create"]
       \/ /\ frame' = [frame EXCEPT ![p].err = "OptErr"]
          /\ pc' = [pc EXCEPT ![p] = "nc_done"]
    /\ UNCHANGED <<ncalls, transferVars, copts, client, connMu, runtimeMu, closed, dials, hist>>

\* lines 337-341: c.ContainerService().Create(ctx, container)
NewContainerCreate(p) ==
    /\ pc[p] = "nc_create"
    /\ "containerStore" \in client.services \/ connMu = 0
    /\ \/ /\ containers' = containers \cup {frame[p].name}
          /\ frame' = [frame EXCEPT ![p].ctr = @ + 1, ![p].calls = @ + 1]
       \/ /\ frame' = [frame EXCEPT ![p].err = "CreateErr", ![p].calls = @ + 1]
          /\ UNCHANGED containers
    /\ pc' = [pc EXCEPT ![p] = "nc_done"]
    /\ UNCHANGED <<ncalls, call, leases, leaseStats, images, sems, copts, client, connMu,
                   runtimeMu, closed, dials, hist>>

\* line 312, run as NewContainer returns: done(ctx)
NewContainerDone(p) ==
    /\ pc[p] = "nc_done"
    /\ LeaseDeleted(frame[p].held[Len(frame[p].held)])
    /\ frame' = [frame EXCEPT ![p].held = SubSeq(@, 1, Len(@) - 1), ![p].freed = @ + 1]
    /\ pc' = [pc EXCEPT ![p] = AfterNewContainer(frame[p].op)]
    /\ UNCHANGED <<ncalls, call, images, sems, containers, copts, client, connMu,
                   runtimeMu, closed, dials, hist>>

\* Restore, line 557
Restore(p, id) ==
    /\ Begin(p, [NoFrame EXCEPT !.op = "Restore", !.name = id])
    /\ pc' = [pc EXCEPT ![p] = "rs_decode"]
    /\ UNCHANGED <<transferVars, copts, client, connMu, runtimeMu, closed, dials, hist>>

\* lines 558-562: store := c.ContentStore(), under the connection lock;
\* index, err := decodeIndex(ctx, store, checkpoint.Target())
RestoreDecodeIndex_ErrIgnored(p) ==
    /\ pc[p] = "rs_decode"
    /\ connMu = 0
    /\ \/ frame' = [frame EXCEPT ![p].decoded = TRUE]
       \/ frame' = [frame EXCEPT ![p].err = "DecodeErr"]
    /\ pc' = [pc EXCEPT ![p] = "rs_lease"]
    /\ UNCHANGED <<ncalls, transferVars, copts, client, connMu, runtimeMu, closed, dials, hist>>

RestoreDecodeIndex(p) ==
    /\ pc[p] = "rs_decode"
    /\ connMu = 0
    /\ \/ /\ frame' = [frame EXCEPT ![p].decoded = TRUE]
          /\ pc' = [pc EXCEPT ![p] = "rs_lease"]
       \/ /\ frame' = [frame EXCEPT ![p].err = "DecodeErr"]
          /\ pc' = [pc EXCEPT ![p] = "done"]
    /\ UNCHANGED <<ncalls, transferVars, copts, client, connMu, runtimeMu, closed, dials, hist>>

\* lines 564-568: ctx, done, err := c.WithLease(ctx); defer done(ctx); the
\* options are made (570-573) and NewContainer is called (575)
RestoreWithLease(p) ==
    /\ pc[p] = "rs_lease"
    /\ connMu = 0
    /\ \/ /\ LeaseCreated(p, leaseStats.creates + 1)
          /\ frame' = [frame EXCEPT ![p].held = Append(@, leaseStats.creates + 1),
                                    ![p].leased = @ + 1]
          /\ pc' = [pc EXCEPT ![p] = "nc_lease"]
       \/ /\ frame' = [frame EXCEPT ![p].err = "LeaseErr"]
          /\ pc' = [pc EXCEPT ![p] = "done"]
          /\ UNCHANGED <<leases, leaseStats>>
    /\ UNCHANGED <<ncalls, call, images, sems, containers, copts, client, connMu,
                   runtimeMu, closed, dials, hist>>

\* line 568, run as Restore returns: done(ctx)
RestoreDone(p) ==
    /\ pc[p] = "rs_done"
    /\ LeaseDeleted(frame[p].held[Len(frame[p].held)])
    /\ frame' = [frame EXCEPT ![p].held = SubSeq(@, 1, Len(@) - 1), ![p].freed = @ + 1]
    /\ pc' = [pc EXCEPT ![p] = "done"]
    /\ UNCHANGED <<ncalls, call, images, sems, containers, copts, client, connMu,
                   runtimeMu, closed, dials, hist>>

\* ------------------------------------------------------- runtime resolution
\* what a call of the namespace service's Labels gives for the runtime label:
\* an error, no label, or a label
LabelOutcomes ==
    {[err |-> "LabelErr", label |-> ""], [err |-> "nil", label |-> ""]}
        \cup {[err |-> "nil", label |-> l] : l \in RuntimeLabels}

\* defaultRuntime, lines 251-255: what is done once the lock is held
ToDo_NoCache(value, defaultns) ==
    IF defaultns # "" THEN "lookup" ELSE "default"

ToDo(value, defaultns) ==
    IF value # "" THEN "cached"
    ELSE IF defaultns # "" THEN "lookup"
    ELSE "default"

\* defaultRuntime, lines 256-267: what GetLabel's outcome makes of the call:
\* the name returned, the error, and the value of c.runtime.value
Resolved_Poisoned(value, out) ==
    IF out.err # "nil"
    THEN [result |-> DefaultRuntime, err |-> out.err, value |-> DefaultRuntime]
    ELSE IF out.label # ""
    THEN [result |-> out.label, err |-> "nil", value |-> out.label]
    ELSE [result |-> DefaultRuntime, err |-> "nil", value |-> DefaultRuntime]

Resolved(value, out) ==
    IF out.err # "nil"
    THEN [result |-> DefaultRuntime, err |-> out.err, value |-> value]
    ELSE IF out.label # ""
    THEN [result |-> out.label, err |-> "nil", value |-> out.label]
    ELSE [result |-> DefaultRuntime, err |-> "nil", value |-> DefaultRuntime]

\* a call of defaultRuntime (op "defaultRuntime") or of Runtime (op
\* "Runtime", lines 242-245, which drops the error)
defaultRuntime(p, op) ==
    /\ Begin(p, [NoFrame EXCEPT !.op = op])
    /\ pc' = [pc EXCEPT ![p] = "dr_lock"]
    /\ UNCHANGED <<transferVars, copts, client, connMu, runtimeMu, closed, dials, hist>>

\* lines 248-255 and 266-267
defaultRuntimeLock_NoMutex(p) ==
    /\ pc[p] = "dr_lock"
    /\ runtimeMu' = p
    /\ LET do == ToDo(client.runtime, client.defaultns)
       IN  /\ client' = IF do = "default"
                        THEN [client EXCEPT !.runtime = DefaultRuntime]
                        ELSE client
           /\ frame' = [frame EXCEPT ![p].cached = client.runtime,
                                     ![p].result = client'.runtime]
           /\ pc' = [pc EXCEPT ![p] = IF do = "lookup" THEN "gl_service" ELSE "dr_unlock"]
    /\ UNCHANGED <<ncalls, transferVars, copts, connMu, closed, dials, hist>>

defaultRuntimeLock(p) ==
    /\ pc[p] = "dr_lock"
    /\ runtimeMu = 0
    /\ runtimeMu' = p
    /\ LET do == ToDo(client.runtime, client.defaultns)
       IN  /\ client' = IF do = "default"
                        THEN [client EXCEPT !.runtime = DefaultRuntime]
                        ELSE client
           /\ frame' = [frame EXCEPT ![p].cached = client.runtime,
                                     ![p].result = client'.runtime]
           /\ pc' = [pc EXCEPT ![p] = IF do = "lookup" THEN "gl_service" ELSE "dr_unlock"]
    /\ UNCHANGED <<ncalls, transferVars, copts, connMu, closed, dials, hist>>

\* GetLabel, line 619: srv := c.NamespaceService(), which takes the
\* connection lock unless the namespace store is overridden
GetLabelService(p) ==
    /\ pc[p] = "gl_service"
    /\ IF "namespaceStore" \in client.services
       THEN /\ pc' = [pc EXCEPT ![p] = "gl_labels"]
            /\ frame' = [frame EXCEPT ![p].local = TRUE]
            /\ UNCHANGED connMu
       ELSE /\ connMu = 0
            /\ connMu' = p
            /\ pc' = [pc EXCEPT ![p] = "gl_bind"]
            /\ UNCHANGED frame
    /\ UNCHANGED <<ncalls, transferVars, copts, client, runtimeMu, closed, dials, hist>>

\* NamespaceService, lines 655-657
GetLabelBind_KeepsLock(p) ==
    /\ pc[p] = "gl_bind"
    /\ frame' = [frame EXCEPT ![p].bound = client.conn]
    /\ pc' = [pc EXCEPT ![p] = "gl_labels"]
    /\ UNCHANGED <<ncalls, transferVars, copts, client, connMu, runtimeMu, closed, dials, hist>>

GetLabelBind(p) ==
    /\ pc[p] = "gl_bind"
    /\ frame' = [frame EXCEPT ![p].bound = client.conn]
    /\ connMu' = 0
    /\ pc' = [pc EXCEPT ![p] = "gl_labels"]
    /\ UNCHANGED <<ncalls, transferVars, copts, client, runtimeMu, closed, dials, hist>>

\* GetLabel, lines 620-626, and what the caller (defaultRuntime, or
\* resolveSnapshotterName) does with its result
GetLabelLabels(p) ==
    /\ pc[p] = "gl_labels"
    /\ IF frame[p].op \in SnapshotterOps
       THEN /\ \E out \in SnapshotterLabelOutcomes :
                   LET r == Settled(frame[p].op, SnapshotterName(frame[p].name, out))
                   IN  /\ frame' = [frame EXCEPT ![p].label = out.label,
                                                 ![p].calls = @ + 1,
                                                 ![p].result = r.result, ![p].err = r.err]
                       /\ pc' = [pc EXCEPT ![p] = AfterResolve(frame[p].op, r.err)]
            /\ UNCHANGED <<client, hist>>
       ELSE /\ \E out \in LabelOutcomes :
                   LET r == Resolved(client.runtime, out)
                   IN  /\ client' = [client EXCEPT !.runtime = r.value]
                       /\ frame' = [frame EXCEPT ![p].label = out.label,
                                                 ![p].looked = @ + 1,
                                                 ![p].result = r.result, ![p].err = r.err]
                       /\ hist' = [hist EXCEPT !.lookups = @ + 1,
                                               !.failed = IF r.err # "nil" THEN @ + 1 ELSE @]
            /\ pc' = [pc EXCEPT ![p] = "dr_unlock"]
    /\ UNCHANGED <<ncalls, transferVars, copts, connMu, runtimeMu, closed, dials>>

\* line 249, run as defaultRuntime returns: c.runtime.mut.Unlock()
defaultRuntimeUnlock(p) ==
    /\ pc[p] = "dr_unlock"
    /\ runtimeMu' = 0
    /\ hist' = [hist EXCEPT !.returned = @ \cup {frame[p].result},
                            !.returnedOK = IF frame[p].err = "nil"
                                           THEN @ \cup {frame[p].result} ELSE @]
    /\ pc' = [pc EXCEPT ![p] = IF frame[p].op \notin ContainerOps THEN "done"
                               ELSE IF frame[p].err # "nil" THEN "nc_done"
                               ELSE "nc_opts"]
    /\ UNCHANGED <<ncalls, transferVars, copts, client, connMu, closed, dials, frame>>

\* ------------------------------------------------------------ specifications
PlainOpts ==
    [address |-> "addr", defaultRuntime |-> "", defaultns |-> "",
     hasServices |-> FALSE, services |-> {}, snapshotters |-> NoSnapshotters,
     sandboxers |-> NoSandboxers]

\* no call is running, the services hold nothing yet
InitCalls ==
    /\ pc = [p \in Procs |-> "idle"]
    /\ call = [p \in Procs |-> NoCall]
    /\ frame = [p \in Procs |-> NoFrame]
    /\ ncalls = 0
    /\ leases = {}
    /\ leaseStats = [creates |-> 0, deletes |-> 0]
    /\ images = {}
    /\ sems = <<>>
    /\ containers = {}
    /\ hist = NoHist

\* the client a constructor returned
InitClient(o, r) ==
    /\ r.err = "nil"
    /\ copts = o
    /\ client = r.client
    /\ connMu = 0
    /\ runtimeMu = 0
    /\ closed = {}
    /\ dials = IF r.client.conn # 0 THEN 1 ELSE 0

Init ==
    /\ InitCalls
    /\ InitClient(PlainOpts, New(PlainOpts, TRUE))

\* goroutines calling Fetch and Push concurrently
Next ==
    \E p \in Procs :
        \/ \E o \in CoreFetchOpts : Fetch(p, <<"r">>, o)
        \/ FetchWithLease(p)
        \/ FetchFetch(p, {<<"d">>})
        \/ FetchCreateNewImage(p)
        \/ FetchDone(p)
        \/ \E o \in CorePushOpts : Push(p, <<"r">>, <<"d">>, o)
        \/ PushPusher(p)
        \/ UploadStart(p)
        \/ UploadFinish(p)
        \/ PushContentReturn(p)
        \/ Return(p)

Spec == Init /\ [][Next]_vars

\* one call of Fetch or Push, over every input
CallNext ==
    \/ pc[1] = "idle" /\ \E ref \in Refs, o \in OptResults : Fetch(1, ref, o)
    \/ FetchWithLease(1)
    \/ FetchFetch(1, Digests)
    \/ FetchCreateNewImage(1)
    \/ FetchDone(1)
    \/ pc[1] = "idle" /\ \E ref \in Refs, d \in Digests, o \in OptResults : Push(1, ref, d, o)
    \/ PushPusher(1)
    \/ UploadStart(1)
    \/ UploadFinish(1)
    \/ PushContentReturn(1)

SpecCall == Init /\ [][CallNext]_vars

\* one Push, with every choice of base handlers and handler wrapper
ChainOpts == {[failed |-> FALSE, ctx |-> rc] : rc \in HandlerContexts}

ChainNext ==
    \/ pc[1] = "idle" /\ \E o \in ChainOpts : Push(1, <<"r">>, <<"d">>, o)
    \/ PushPusher(1)
    \/ UploadStart(1)
    \/ UploadFinish(1)
    \/ PushContentReturn(1)

SpecChain == Init /\ [][ChainNext]_vars

\* goroutines reconnecting, closing and looking services up on one client
ConnOpts == {o \in ClientOpts : o.defaultRuntime = "" /\ o.defaultns = ""
                                 /\ o.services \subseteq {"containerStore"}
                                 /\ o.snapshotters = NoSnapshotters /\ o.sandboxers = NoSandboxers}

ConnInit ==
    /\ InitCalls
    /\ \E o \in ConnOpts :
           \/ InitClient(o, New(o, TRUE))
           \/ o.address = "" /\ InitClient(o, NewWithConn(1, o))

ConnNext ==
    \E p \in Procs :
        \/ Reconnect(p)
        \/ ReconnectLock(p)
        \/ ReconnectClose(p)
        \/ ReconnectDial(p)
        \/ ReconnectUnlock(p)
        \/ Close(p)
        \/ CloseLock(p)
        \/ CloseConn(p)
        \/ Service(p, "containerStore")
        \/ Conn(p)
        \/ HealthService(p)
        \/ ServiceLock(p)
        \/ ServiceBind(p)
        \/ ClientReturn(p)

SpecConn == ConnInit /\ [][ConnNext]_vars

\* a client is constructed; goroutines then call Version, Server and
\* IsServing on it
NewOpts == {o \in ClientOpts : o.defaultRuntime = "" /\ o.defaultns = ""
                                /\ o.snapshotters = NoSnapshotters /\ o.sandboxers = NoSandboxers}

NewInit ==
    /\ InitCalls
    /\ copts \in NewOpts
    /\ client = NoClient
    /\ connMu = 0
    /\ runtimeMu = 0
    /\ closed = {}
    /\ dials = 0

NewNext ==
    \/ \E dialOK \in BOOLEAN : CallNew(dialOK)
    \/ \E conn \in {0, 1} : CallNewWithConn(conn)
    \/ \E p \in Procs :
           \/ Checked(p, "Version")
           \/ Checked(p, "Server")
           \/ Checked(p, "IsServing")
           \/ CheckedLock(p)
           \/ CheckedConn(p)
           \/ CheckedService(p)
           \/ CheckedBind(p)
           \/ CheckedCall(p)
           \/ ClientReturn(p)

SpecNew == NewInit /\ [][NewNext]_vars

\* calls, one after the other, that resolve a snapshotter's name, look a
\* snapshotter up or ask the introspection service for its plugin
SnapshotterArgs == {"", "sn.a", "sn.b"}

SnapOpts ==
    {o \in ClientOpts :
        /\ o.address = "addr" /\ o.defaultRuntime = ""
        /\ o.services \subseteq {"namespaceStore", "introspectionService"}
        /\ o.sandboxers = NoSandboxers
        /\ ~o.hasServices => (o.services = {} /\ o.snapshotters = NoSnapshotters)}

SnapInit ==
    /\ InitCalls
    /\ \E o \in SnapOpts : InitClient(o, New(o, TRUE))

SnapNext ==
    \/ pc[1] = "idle" /\ \E name \in SnapshotterArgs, hasNS \in BOOLEAN :
                             resolveSnapshotterName(1, name, hasNS)
    \/ pc[1] = "idle" /\ \E name \in SnapshotterArgs : SnapshotService(1, name)
    \/ pc[1] = "idle" /\ \E name \in SnapshotterArgs, hasNS \in BOOLEAN :
                             getSnapshotter(1, name, hasNS)
    \/ pc[1] = "idle" /\ \E name \in SnapshotterArgs :
                             GetSnapshotterSupportedPlatforms(1, name)
    \/ pc[1] = "idle" /\ \E name \in SnapshotterArgs :
                             GetSnapshotterCapabilities(1, name)
    \/ GetLabelService(1)
    \/ GetLabelBind(1)
    \/ GetLabelLabels(1)
    \/ SnapshotPick(1)
    \/ SnapshotBind(1)
    \/ CheckedService(1)
    \/ CheckedBind(1)
    \/ CheckedCall(1)
    \/ SnapshotterReturn(1)

SpecSnap == SnapInit /\ [][SnapNext]_vars

\* calls, one after the other, that look a snapshotter or a sandbox
\* controller up by name
SandboxerArgs == {"", "sb.a", "sb.b"}

KeyedOpts ==
    {o \in ClientOpts :
        /\ o.address = "addr" /\ o.defaultRuntime = ""
        /\ o.hasServices /\ o.services \subseteq {"namespaceStore"}}

KeyedInit ==
    /\ InitCalls
    /\ \E o \in KeyedOpts : InitClient(o, New(o, TRUE))

KeyedNext ==
    \/ pc[1] = "idle" /\ \E name \in SnapshotterArgs : SnapshotService(1, name)
    \/ pc[1] = "idle" /\ \E name \in SandboxerArgs : SandboxController(1, name)
    \/ GetLabelService(1)
    \/ GetLabelBind(1)
    \/ GetLabelLabels(1)
    \/ SnapshotPick(1)
    \/ SnapshotBind(1)
    \/ SandboxPick(1)
    \/ SandboxBind(1)
    \/ SnapshotterReturn(1)

SpecKeyed == KeyedInit /\ [][KeyedNext]_vars

\* goroutines restoring containers from checkpoints on one client
RestoreOpts ==
    {o \in ClientOpts : /\ o.address = "addr" /\ o.defaultRuntime = "" /\ o.defaultns = "ns"
                        /\ o.hasServices
                        /\ o.services = {}
                        /\ o.snapshotters = NoSnapshotters /\ o.sandboxers = NoSandboxers}

RestoreInit ==
    /\ InitCalls
    /\ \E o \in RestoreOpts : InitClient(o, New(o, TRUE))

\* two calls at a time are enough for their leases to overlap
RestoreProcs == {p \in Procs : p <= 2}

RestoreNext ==
    \E p \in RestoreProcs :
        \/ \E id \in ContainerIds : Restore(p, id)
        \/ RestoreDecodeIndex(p)
        \/ RestoreWithLease(p)
        \/ NewContainerWithLease(p)
        \/ defaultRuntimeLock(p)
        \/ GetLabelService(p)
        \/ GetLabelBind(p)
        \/ GetLabelLabels(p)
        \/ defaultRuntimeUnlock(p)
        \/ NewContainerOpts(p)
        \/ NewContainerCreate(p)
        \/ NewContainerDone(p)
        \/ RestoreDone(p)
        \/ ClientReturn(p)

SpecRestore == RestoreInit /\ [][RestoreNext]_vars

\* goroutines resolving the runtime name on one client
RuntimeOpts == {o \in ClientOpts : o.address = "addr" /\ o.hasServices
                                    /\ o.services \subseteq {"namespaceStore"}
                                    /\ o.snapshotters = NoSnapshotters /\ o.sandboxers = NoSandboxers}

RuntimeInit ==
    /\ InitCalls
    /\ \E o \in RuntimeOpts : InitClient(o, New(o, TRUE))

RuntimeNext ==
    \E p \in Procs :
        \/ defaultRuntime(p, "defaultRuntime")
        \/ defaultRuntime(p, "Runtime")
        \/ defaultRuntimeLock(p)
        \/ GetLabelService(p)
        \/ GetLabelBind(p)
        \/ GetLabelLabels(p)
        \/ defaultRuntimeUnlock(p)
        \/ ClientReturn(p)

SpecRuntime == RuntimeInit /\ [][RuntimeNext]_vars

\* goroutines resolving the runtime name, reconnecting and closing on one
\* client
LocksNext ==
    \E p \in Procs :
        \/ defaultRuntime(p, "defaultRuntime")
        \/ defaultRuntimeLock(p)
        \/ GetLabelService(p)
        \/ GetLabelBind(p)
        \/ GetLabelLabels(p)
        \/ defaultRuntimeUnlock(p)
        \/ Reconnect(p)
        \/ ReconnectLock(p)
        \/ ReconnectClose(p)
        \/ ReconnectDial(p)
        \/ ReconnectUnlock(p)
        \/ Close(p)
        \/ CloseLock(p)
        \/ CloseConn(p)
        \/ ClientReturn(p)

SpecLocks == RuntimeInit /\ [][LocksNext]_vars

\* goroutines calling the operations that take the connection lock or the
\* runtime lock, one call each, on one client
MixOpts ==
    {o \in ClientOpts : /\ o.defaultRuntime = "" /\ o.defaultns = "ns"
                        /\ o.snapshotters = NoSnapshotters /\ o.sandboxers = NoSandboxers
                        /\ o.hasServices /\ o.services = {"introspectionService"}}

MixInit ==
    /\ pc = [p \in Procs |-> "idle"]
    /\ call = [p \in Procs |-> NoCall]
    /\ frame = [p \in Procs |-> NoFrame]
    /\ ncalls = 0
    /\ leases = {}
    /\ leaseStats = [creates |-> 0, deletes |-> 0]
    /\ images = {}
    /\ sems = <<>>
    /\ containers = {}
    /\ \E o \in MixOpts :
           /\ InitClient(o, New(o, TRUE))
           /\ hist = [NoHist EXCEPT !.made = "New", !.madeConn = New(o, TRUE).client.conn]

\* the steps a call takes once it has been entered
MixStep(p) ==
    \/ ReconnectLock(p)
    \/ ReconnectClose(p)
    \/ ReconnectDial(p)
    \/ ReconnectUnlock(p)
    \/ CloseLock(p)
    \/ CloseConn(p)
    \/ ServiceLock(p)
    \/ ServiceBind(p)
    \/ CheckedLock(p)
    \/ CheckedConn(p)
    \/ CheckedService(p)
    \/ CheckedBind(p)
    \/ CheckedCall(p)
    \/ NewContainerWithLease(p)
    \/ defaultRuntimeLock(p)
    \/ GetLabelService(p)
    \/ GetLabelBind(p)
    \/ GetLabelLabels(p)
    \/ defaultRuntimeUnlock(p)
    \/ NewContainerOpts(p)
    \/ NewContainerCreate(p)
    \/ NewContainerDone(p)

MixNext ==
    \E p \in Procs :
        \/ Reconnect(p)
        \/ Close(p)
        \/ Service(p, "containerStore")
        \/ Conn(p)
        \/ Checked(p, "Version")
        \/ Checked(p, "Server")
        \/ Checked(p, "IsServing")
        \/ defaultRuntime(p, "defaultRuntime")
        \/ \E id \in ContainerIds : NewContainer(p, id)
        \/ MixStep(p)

SpecMix == MixInit /\ [][MixNext]_vars

\* ------------------------------------------------------- claims on Fetch/Push
InTransfer(p) == pc[p] \in {"fetch_fetch", "fetch_create", "push_content"}

HoldsOneLease(p) ==
    /\ call[p].created = 1
    /\ call[p].released = 0
    /\ call[p].lease \in leases
    /\ \A q \in Procs \ {p} : call[q].lease # call[p].lease

Quiescent == \A p \in Procs : pc[p] \in {"idle", "done"}

\* C2: a call that acquired a lease has invoked the release function exactly
\* once by the time it returns, whether c.fetch and createNewImage succeeded
\* or failed, and never more than once; when no call is running, the leases
\* service has seen as many deletions as creations and holds no lease.
C2_ReleasedExactlyOnce ==
    /\ \A p \in Procs :
           /\ call[p].released <= call[p].created
           /\ call[p].created <= 1
           /\ pc[p] = "done" => call[p].released = call[p].created
    /\ Quiescent => leaseStats.creates = leaseStats.deletes /\ leases = {}

C2_Witness ==
    /\ Quiescent
    /\ leaseStats.creates = 2
    /\ leaseStats.deletes = 2
    /\ \E p \in Procs : pc[p] = "done" /\ call[p].err = "CreateErr" /\ call[p].released = 1

\* C4: an image record is registered only by createNewImage, after c.fetch
\* succeeded, and nothing but the deferred release follows it; a Fetch that
\* fails at any step leaves no image record.
C4_ImageOnlyAfterFetch ==
    \A p \in Procs :
        call[p].op = "Fetch" =>
            /\ call[p].registered > 0 =>
                   /\ call[p].fetched
                   /\ call[p].err = "nil"
                   /\ pc[p] \in {"fetch_done", "done"}
            /\ call[p].err # "nil" => call[p].registered = 0 /\ images = {}
            /\ images # {} => call[p].registered = 1 /\ images = {call[p].arg}

C4_Witness ==
    \E p \in Procs :
        /\ call[p].op = "Fetch" /\ pc[p] = "done"
        /\ call[p].err = "FetchErr" /\ call[p].created = 1 /\ images = {}

OptsApplied(p) == call[p].err # "OptErr"

\* C5: a Fetch whose RemoteContext has Unpack set returns NotImplemented
\* without having acquired a lease, parsed a platform or called any service.
C5_UnpackNotImplemented ==
    \A p \in Procs :
        (call[p].op = "Fetch" /\ OptsApplied(p) /\ call[p].in.Unpack) =>
            /\ pc[p] = "done"
            /\ call[p].err = "NotImplemented"
            /\ call[p].created = 0 /\ call[p].net = 0 /\ ~call[p].parsed
            /\ leases = {} /\ images = {} /\ leaseStats.creates = 0

C5_Witness ==
    \E p \in Procs :
        /\ call[p].op = "Fetch" /\ call[p].in.Unpack
        /\ call[p].in.Platforms = <<"!">>
        /\ pc[p] = "done" /\ call[p].err = "NotImplemented"

HasAt(ref) == \E i \in DOMAIN ref : ref[i] = "@"

\* C6: the pusher is resolved at most once per Push, exactly once by the
\* time PushContent runs, and with ref@digest when ref holds no "@" and
\* with ref itself when it does.
C6_PusherRef ==
    \A p \in Procs :
        call[p].op = "Push" =>
            /\ Len(call[p].pusherRefs) <= 1
            /\ pc[p] = "push_content" => Len(call[p].pusherRefs) = 1
            /\ call[p].pusherRefs # <<>> =>
                   /\ ~HasAt(call[p].arg) =>
                          call[p].pusherRefs[1] = call[p].arg \o <<"@">> \o call[p].digest
                   /\ HasAt(call[p].arg) => call[p].pusherRefs[1] = call[p].arg

C6_Witness ==
    \E p \in Procs :
        /\ call[p].op = "Push" /\ pc[p] = "push_content"
        /\ call[p].arg = <<"r", "r">> /\ call[p].digest = <<"e">>
        /\ call[p].pusherRefs = << <<"r", "r", "@", "e">> >>

AllValid(list) == \A i \in DOMAIN list : list[i] = "linux/amd64"

\* C7: in a Fetch that gets as far as choosing its matcher, an explicit
\* matcher is used as given and the platform list is not parsed; without
\* one, a non-empty list is parsed into an Any matcher and an empty list
\* gives match-all; an invalid platform string (no explicit matcher) ends
\* Fetch with the parse error before any lease is asked for.
C7_MatcherPrecedence ==
    \A p \in Procs :
        (call[p].op = "Fetch" /\ OptsApplied(p) /\ ~call[p].in.Unpack) =>
            LET in == call[p].in
                m  == call[p].ctx.PlatformMatcher
            IN  /\ in.PlatformMatcher.kind = "explicit" =>
                       /\ m = in.PlatformMatcher
                       /\ ~call[p].parsed
                       /\ call[p].err # "InvalidArgument"
                /\ (in.PlatformMatcher.kind = "nil" /\ in.Platforms = <<>>) =>
                       m.kind = "All" /\ ~call[p].parsed
                /\ (in.PlatformMatcher.kind = "nil" /\ in.Platforms # <<>>
                        /\ AllValid(in.Platforms)) =>
                       /\ call[p].parsed
                       /\ m.kind = "Any"
                       /\ m.ps = [i \in DOMAIN in.Platforms |->
                                     [OS |-> "linux", Architecture |-> "amd64"]]
                /\ (in.PlatformMatcher.kind = "nil" /\ ~AllValid(in.Platforms)) =>
                       /\ pc[p] = "done"
                       /\ call[p].err = "InvalidArgument"
                       /\ call[p].created = 0 /\ call[p].net = 0
                       /\ leases = {} /\ leaseStats.creates = 0

C7_Witness ==
    \E p \in Procs :
        /\ call[p].op = "Fetch" /\ pc[p] = "fetch_fetch"
        /\ call[p].in.PlatformMatcher.kind = "explicit"
        /\ call[p].in.Platforms = <<"!">>

\* C8: while PushContent runs, a Push with MaxConcurrentUploadedLayers = N > 0
\* has a limiter of capacity N that counts its own uploads only, and at most
\* N uploads in flight; a Push with N <= 0 has no limiter; no two Push calls
\* have the same limiter.
C8_UploadLimit ==
    \A p \in Procs :
        pc[p] = "push_content" =>
            LET n == call[p].ctx.MaxConcurrentUploadedLayers
                l == call[p].limiter
            IN  /\ n > 0 =>
                       /\ l \in DOMAIN sems
                       /\ sems[l].cap = n
                       /\ sems[l].held = call[p].inflight
                       /\ call[p].inflight <= n
                /\ n <= 0 => l = 0
                /\ \A q \in Procs \ {p} :
                       (pc[q] = "push_content" /\ l # 0) => call[q].limiter # l

C8_Witness ==
    \E p, q \in Procs :
        /\ pc[p] = "push_content" /\ pc[q] = "push_content"
        /\ call[p].ctx.MaxConcurrentUploadedLayers = 1
        /\ call[p].inflight = 1 /\ call[p].uploaded = 0
        /\ call[q].ctx.MaxConcurrentUploadedLayers = -1
        /\ call[q].inflight = NumLayers

\* --------------------------------------------------------- claims on the client
ViaConn(p) ==
    frame[p].op \in {"Service", "Conn", "Health"} /\ pc[p] = "done" /\ ~frame[p].local

\* C3: a lookup that began after a Reconnect returned is not bound to the
\* connection that Reconnect found installed, and no lookup reads the
\* connection between Reconnect's Close and its installing the new one.
C3_LookupSeesNewConn ==
    \A p \in Procs :
        ViaConn(p) => frame[p].bound \notin frame[p].seen /\ ~frame[p].half

Resolving(p) ==
    /\ frame[p].op \in {"defaultRuntime", "Runtime"}
    /\ pc[p] \in {"dr_unlock", "done"}

\* C9 as stated: any two runtime resolutions on a client return the same
\* name; a resolution whose label lookup failed has committed nothing, and
\* one whose lookup succeeded returns the label's value.
C9_AnyTwoCallsAgree ==
    /\ Cardinality(hist.returned) <= 1
    /\ \A p \in Procs :
           /\ (pc[p] = "dr_unlock" /\ frame[p].err # "nil") => client.runtime = ""
           /\ (Resolving(p) /\ frame[p].err = "nil" /\ frame[p].label # "") =>
                  frame[p].result = frame[p].label

\* C9, amended: any two runtime resolutions that met no error return the same
\* name; a resolution whose label lookup failed returns the compiled-in default
\* with the error and has committed nothing, and a resolution whose lookup
\* succeeded returns the label's value (the compiled-in default for an empty
\* label) and has committed it.
C9_SuccessfulCallsAgree ==
    /\ Cardinality(hist.returnedOK) <= 1
    /\ \A p \in Procs :
           /\ (pc[p] = "dr_unlock" /\ frame[p].err # "nil") =>
                  /\ client.runtime = ""
                  /\ frame[p].result = DefaultRuntime
                  /\ frame[p].looked = 1
           /\ (Resolving(p) /\ frame[p].err = "nil" /\ frame[p].looked = 1) =>
                  /\ frame[p].label # "" => frame[p].result = frame[p].label
                  /\ frame[p].label = "" => frame[p].result = DefaultRuntime
                  /\ client.runtime = frame[p].result

C9_Witness ==
    \E p \in Procs :
        /\ Resolving(p) /\ pc[p] = "done"
        /\ frame[p].err = "nil" /\ frame[p].label = "rt.a" /\ frame[p].result = "rt.a"
        /\ hist.returned = {DefaultRuntime, "rt.a"}
        /\ hist.returnedOK = {"rt.a"}

RuntimeCached ==
    \A p \in Procs :
        /\ (Resolving(p) /\ frame[p].cached # "") =>
               /\ frame[p].result = frame[p].cached
               /\ frame[p].looked = 0
               /\ frame[p].err = "nil"
        /\ copts.defaultRuntime # "" =>
               hist.lookups = 0 /\ client.runtime = copts.defaultRuntime
        /\ (Resolving(p) /\ client.defaultns = "" /\ copts.defaultRuntime = "") =>
               /\ client.runtime = DefaultRuntime
               /\ frame[p].result = DefaultRuntime
               /\ hist.lookups = 0

\* C10: once c.runtime.value is non-empty no step changes it, and a
\* resolution that finds it non-empty returns it without a label lookup; a
\* client constructed with a default runtime never looks the label up; a
\* client with no default namespace has the compiled-in default cached by
\* the time its first resolution returns.
C10_RuntimeSticky ==
    /\ []RuntimeCached
    /\ [][client.runtime # "" => client'.runtime = client.runtime]_vars

C10_Witness ==
    \E p \in Procs :
        /\ Resolving(p) /\ pc[p] = "done"
        /\ frame[p].cached = "rt.b" /\ frame[p].result = "rt.b"
        /\ hist.lookups = 1

Accessing(p) == frame[p].op \in {"Service", "Conn", "Health"}

AccessorBinding ==
    \A p \in Procs :
        Accessing(p) =>
            /\ frame[p].op = "Service" => frame[p].local = (frame[p].cap \in client.services)
            /\ frame[p].op \in {"Conn", "Health"} => ~frame[p].local
            /\ frame[p].local =>
                   pc[p] = "done" /\ ~frame[p].locked /\ frame[p].bound = 0 /\ connMu # p
            /\ pc[p] = "sv_bind" => connMu = p
            /\ (pc[p] = "done" /\ ~frame[p].local) =>
                   /\ frame[p].locked
                   /\ connMu # p
                   /\ frame[p].bound \notin frame[p].swapped
                   /\ frame[p].start # 0 => frame[p].bound >= frame[p].start

ReconnectRefused ==
    ~client.connector =>
        /\ client.conn = dials
        /\ hist.retired = {}
        /\ closed # {} => hist.closeCalled
        /\ \A p \in Procs :
               frame[p].op = "Reconnect" =>
                   /\ pc[p] = "done"
                   /\ frame[p].err = "Unavailable"
                   /\ ~frame[p].locked /\ connMu # p

\* C12: on a client with no connector (built by NewWithConn, or by New with
\* an empty address) Reconnect returns Unavailable in one step that changes
\* neither the client nor the set of closed connections and does not touch
\* the connection lock.
C12_ReconnectWithoutConnector ==
    /\ []ReconnectRefused
    /\ [][\A p \in Procs :
              (~client.connector /\ pc[p] = "idle" /\ frame'[p].op = "Reconnect") =>
                  /\ client' = client /\ closed' = closed
                  /\ connMu' = connMu /\ dials' = dials
                  /\ pc'[p] = "done" /\ frame'[p].err = "Unavailable"]_vars

C12_Witness ==
    \E p \in Procs :
        /\ frame[p].op = "Reconnect" /\ pc[p] = "done" /\ frame[p].err = "Unavailable"
        /\ copts.address = "" /\ client.conn = 1 /\ closed = {} /\ connMu = 0

\* ------------------------------------------------- claims on the constructors
\* C13: New with an empty address and no services option returns the
\* Unavailable error and no client.
C13_NewNeedsConnOrServices ==
    (hist.made = "New" /\ copts.address = "" /\ ~copts.hasServices) =>
        /\ hist.madeErr = "Unavailable"
        /\ client = NoClient
        /\ dials = 0
        /\ \A p \in Procs : pc[p] = "idle"

C13_Witness ==
    /\ hist.made = "New" /\ copts.address = "" /\ ~copts.hasServices
    /\ hist.madeErr = "Unavailable"

\* C14: a client returned by New or NewWithConn has a connection or was
\* given a services option; a construction given neither returns an error.
C14_ConnOrServices ==
    /\ Made => (client.conn # 0 \/ copts.hasServices)
    /\ (hist.made # "none" /\ ~copts.hasServices
            /\ (hist.made = "New" => copts.address = "")
            /\ (hist.made = "NewWithConn" => hist.madeConn = 0)) =>
           hist.madeErr # "nil"

\* C15: New with an empty address returns a client only when every override
\* slot is filled.
C15_EmptyAddressNeedsAllOverrides ==
    (hist.made = "New" /\ copts.address = "" /\ hist.madeErr = "nil") =>
        (copts.hasServices /\ copts.services = Caps)

\* ------------------------------------------------- claims on the snapshotters
SnapshotterResolved ==
    \A p \in Procs :
        (frame[p].op = "resolveSnapshotterName" /\ pc[p] = "done") =>
            /\ frame[p].name # "" =>
                   /\ frame[p].result = frame[p].name /\ frame[p].err = "nil"
                   /\ frame[p].looked = 0 /\ frame[p].calls = 0 /\ ~frame[p].locked
            /\ frame[p].name = "" =>
                   /\ frame[p].looked = 1
                   /\ frame[p].err = "nil" =>
                          /\ frame[p].calls = 1
                          /\ frame[p].label # "" => frame[p].result = frame[p].label
                          /\ frame[p].label = "" => frame[p].result = DefaultSnapshotter
                   /\ frame[p].err # "nil" => frame[p].result = ""

\* C16: resolveSnapshotterName returns a non-empty name as it is, without
\* calling GetLabel; for an empty name it calls GetLabel once and, when that
\* succeeds, returns the label if it is non-empty and the compiled-in default
\* if not; no step of a resolution writes to the client, so what a call
\* returns is what its own lookup gave, whatever earlier calls returned.
C16_SnapshotterNameNotCached ==
    /\ []SnapshotterResolved
    /\ [][client' = client]_vars

C16_Witness ==
    /\ frame[1].op = "resolveSnapshotterName" /\ pc[1] = "done"
    /\ frame[1].name = "" /\ frame[1].result = "sn.b" /\ frame[1].calls = 1
    /\ hist.resolved = {"sn.a"}

\* --------------------------------------- claims on Version, Server, IsServing
\* C17: Version, Server and IsServing return Unavailable exactly when the
\* client has no connection and no override for the capability the call
\* uses; a call that returns it has called no service and does not hold the
\* connection lock.
C17_UnavailableIffNothingToCall ==
    \A p \in Procs :
        (frame[p].op \in {"Version", "Server", "IsServing"} /\ pc[p] = "done") =>
            /\ frame[p].err = "Unavailable" <=>
                   (client.conn = 0 /\ frame[p].cap \notin client.services)
            /\ frame[p].err = "Unavailable" => (frame[p].calls = 0 /\ connMu # p)

\* C18: GetSnapshotterSupportedPlatforms and GetSnapshotterCapabilities
\* return NotFound when Plugins answers with an empty list, and getSnapshotter
\* returns NotFound when the lookup under the resolved name gave nil.
C18_AbsentIsNotFound ==
    \A p \in Procs :
        pc[p] = "done" =>
            /\ (frame[p].op \in PluginOps /\ frame[p].calls = 1
                    /\ frame[p].err # "RemoteErr" /\ frame[p].plugins = 0) =>
                   frame[p].err = "NotFound"
            /\ (frame[p].op = "getSnapshotter" /\ frame[p].found = "nil") =>
                   frame[p].err = "NotFound"

\* C19: whenever the connection lock is free and Close has not been called,
\* the installed connection is not one that Reconnect has closed, whether
\* the connector returned a connection or a dial error; so the client a
\* failed call leaves behind can serve the calls that follow.
C19_InstalledConnIsOpen ==
    (connMu = 0 /\ ~hist.closeCalled) => client.conn \notin closed

\* ----------------------------------------------------- claims on the two locks
\* a Reconnect or a Close that holds the connection lock
SwapInProgress(q) == pc[q] \in {"rc_close", "rc_dial", "rc_unlock", "cl_close"}

\* the runtime lock is held through the label lookup, the connection lock is
\* not; Reconnect and Close wait for the connection lock only
LookupLeavesConnFree ==
    \A p, q \in Procs :
        /\ pc[p] \in {"gl_service", "gl_bind", "gl_labels", "dr_unlock"} => runtimeMu = p
        /\ pc[p] = "gl_labels" => connMu # p
        /\ SwapInProgress(q) => (connMu = q /\ runtimeMu # q)
        /\ (pc[p] = "gl_labels" /\ pc[q] = "rc_lock" /\ connMu = 0) => ENABLED ReconnectLock(q)
        /\ (pc[p] = "gl_labels" /\ pc[q] = "cl_lock" /\ connMu = 0) => ENABLED CloseLock(q)
        /\ (pc[p] = "gl_labels" /\ pc[q] = "rc_close") => ENABLED ReconnectClose(q)
        /\ (pc[p] = "gl_labels" /\ pc[q] = "rc_dial") => ENABLED ReconnectDial(q)
        /\ (pc[p] = "gl_labels" /\ pc[q] = "rc_unlock") => ENABLED ReconnectUnlock(q)
        /\ (pc[p] = "gl_labels" /\ pc[q] = "cl_close") => ENABLED CloseConn(q)

\* C20 as stated: a resolution in its label lookup keeps no Reconnect or
\* Close from running, and a Reconnect or Close in progress keeps no step of
\* a resolution that holds the runtime lock from running.
C20_NeitherBlocksTheOther ==
    /\ LookupLeavesConnFree
    /\ \A p, q \in Procs :
           (SwapInProgress(q) /\ pc[p] = "gl_service") => ENABLED GetLabelService(p)

\* C20, amended: a resolution in its label lookup keeps no Reconnect or
\* Close from running; a resolution answered from the cache, from the
\* compiled-in default or through a namespace-store override never takes the
\* connection lock; a resolution that looks the label up through the
\* connection takes the connection lock in NamespaceService, waits exactly
\* while someone else holds it, and has released it before the lookup.
C20_LookupNeverBlocksReconnect ==
    /\ LookupLeavesConnFree
    /\ \A p \in Procs :
           /\ frame[p].op = "defaultRuntime" =>
                  /\ (frame[p].cached # "" \/ client.defaultns = "") =>
                         pc[p] \notin {"gl_service", "gl_bind", "gl_labels"}
                  /\ "namespaceStore" \in client.services => (pc[p] # "gl_bind" /\ connMu # p)
                  /\ connMu = p <=> pc[p] = "gl_bind"
           /\ pc[p] = "gl_service" =>
                  (ENABLED GetLabelService(p) <=>
                       (connMu = 0 \/ "namespaceStore" \in client.services))
           /\ pc[p] = "gl_bind" => ENABLED GetLabelBind(p)
           /\ pc[p] = "gl_labels" => ENABLED GetLabelLabels(p)
           /\ pc[p] = "dr_unlock" => ENABLED defaultRuntimeUnlock(p)

C20_Witness ==
    \E p, q \in Procs :
        /\ pc[p] = "gl_labels" /\ runtimeMu = p /\ frame[p].bound = 1
        /\ frame[q].op = "Reconnect" /\ pc[q] = "rc_unlock" /\ connMu = q
        /\ client.conn = 2

\* ------------------------------------------- claims on concurrent resolutions
\* a resolution that holds the runtime lock
InResolution(p) == pc[p] \in {"gl_service", "gl_bind", "gl_labels", "dr_unlock"}

\* C21 as stated: of the callers that resolve the runtime name of a client
\* that has none cached, one looks the label up and no other does.
C21_OneLookupOnly ==
    /\ hist.lookups <= 1
    /\ \A p, q \in Procs : (InResolution(p) /\ InResolution(q)) => p = q

\* C21, amended: resolutions serialize on the runtime lock, so at most one
\* is in its lookup at a time; at most one lookup ever succeeds, and it
\* leaves the name cached; a caller that finds the name cached returns it
\* without a lookup of its own; a lookup that fails caches nothing, and the
\* caller that takes the lock next makes a lookup of its own.
C21_OneSuccessfulLookup ==
    /\ \A p, q \in Procs : (InResolution(p) /\ InResolution(q)) => p = q
    /\ \A p \in Procs : InResolution(p) => runtimeMu = p
    /\ hist.lookups - hist.failed <= 1
    /\ hist.lookups - hist.failed = 1 => client.runtime # ""
    /\ (client.runtime = "" /\ runtimeMu = 0) => hist.lookups = hist.failed
    /\ \A p \in Procs :
           /\ (Resolving(p) /\ frame[p].cached # "") =>
                  frame[p].looked = 0 /\ frame[p].result = frame[p].cached
           /\ (Resolving(p) /\ frame[p].cached = "" /\ client.defaultns # "") =>
                  frame[p].looked = 1

C21_Witness ==
    \E p, q \in Procs :
        /\ Resolving(p) /\ pc[p] = "done" /\ frame[p].cached = ""
        /\ frame[p].looked = 1 /\ frame[p].result = "rt.a"
        /\ Resolving(q) /\ pc[q] = "done" /\ frame[q].cached = "rt.a"
        /\ frame[q].looked = 0 /\ frame[q].result = "rt.a"
        /\ hist.lookups = 1

\* ----------------------------------------------------------- claims on locks
Running(p) == pc[p] \notin {"idle", "done"}

\* the places where a call is about to take the connection lock
AtConnLock(p) ==
    \/ pc[p] \in {"rc_lock", "cl_lock", "sv_lock", "ck_lock", "nc_lease"}
    \/ pc[p] = "ck_service" /\ frame[p].cap \notin client.services
    \/ pc[p] = "gl_service" /\ "namespaceStore" \notin client.services
    \/ pc[p] = "nc_create" /\ "containerStore" \notin client.services

\* C22: Reconnect, Close, the service lookups, Conn, Version, Server,
\* IsServing, runtime resolution and NewContainer cannot deadlock one another
\* in any interleaving: the connection lock is never held by a call that is
\* about to take the runtime lock, never held by a call that is about to take
\* it again, and never held by a call that has returned, the early
\* Unavailable returns included; so the holder of the connection lock can
\* always take a step, the holder of the runtime lock waits for nothing but
\* the connection lock, and a call that cannot take a step waits for a lock
\* that another running call holds.
C22_NoDeadlock ==
    /\ \A p \in Procs :
           /\ pc[p] = "dr_lock" => connMu # p /\ runtimeMu # p
           /\ AtConnLock(p) => connMu # p
           /\ ~Running(p) => connMu # p /\ runtimeMu # p
           /\ Running(p) /\ ~ENABLED MixStep(p) =>
                  \/ AtConnLock(p) /\ connMu \notin {0, p}
                  \/ pc[p] = "dr_lock" /\ runtimeMu \notin {0, p}
    /\ connMu # 0 => ENABLED MixStep(connMu)
    /\ runtimeMu # 0 => ENABLED MixStep(runtimeMu) \/ connMu \notin {0, runtimeMu}

C22_Witness ==
    \E p, q \in Procs :
        /\ frame[p].op = "NewContainer" /\ pc[p] = "gl_service" /\ runtimeMu = p
        /\ pc[q] = "rc_dial" /\ connMu = q
        /\ ~ENABLED MixStep(p)
        /\ ENABLED MixStep(q)

\* ------------------------------------------------- claims on Push and Restore
\* the RemoteContext a Fetch would resolve its matcher from: Fetch gets to its
\* matcher only when Unpack is not set (lines 452-454)
AsFetched(o) == [failed |-> FALSE, ctx |-> [o EXCEPT !.Unpack = FALSE]]

\* C23: for every RemoteContext (explicit matcher or none; platform list
\* empty, valid or invalid) a Push ends its matcher resolution as a Fetch of
\* the same RemoteContext does: with the same error or, without one, the same
\* matcher, which is the explicit one if there is one, else Any over the
\* parsed list if the list is not empty, else match-all; and a Push with an
\* invalid platform string returns the parse error having resolved no pusher.
C23_PushResolvesLikeFetch ==
    \A p \in Procs :
        (call[p].op = "Push" /\ OptsApplied(p)) =>
            LET in == call[p].in
                f  == FetchPrepare(AsFetched(in))
                m  == call[p].ctx.PlatformMatcher
            IN  /\ (call[p].err = "InvalidArgument") <=> (f.err = "InvalidArgument")
                /\ f.err \in {"nil", "InvalidArgument"}
                /\ call[p].parsed = f.parsed
                /\ m = f.ctx.PlatformMatcher
                /\ m = FetchMatcher(in).matcher
                /\ f.err = "nil" =>
                       m = IF in.PlatformMatcher.kind = "explicit" THEN in.PlatformMatcher
                           ELSE IF in.Platforms # <<>> THEN MatchAny(ParseAll(in.Platforms).ps)
                           ELSE MatchAll
                /\ f.err = "InvalidArgument" =>
                       /\ pc[p] = "done"
                       /\ call[p].pusherRefs = <<>> /\ call[p].net = 0
                       /\ in.PlatformMatcher.kind = "nil" /\ ~AllValid(in.Platforms)

C23_Witness ==
    \E p \in Procs :
        /\ call[p].op = "Push" /\ pc[p] = "done"
        /\ call[p].in.PlatformMatcher.kind = "nil" /\ call[p].in.Platforms = <<"!">>
        /\ call[p].err = "InvalidArgument" /\ call[p].pusherRefs = <<>>

\* a container is created by none but a call at line 337 that has met no
\* error and holds the lease of NewContainer and, in a Restore, the lease of
\* Restore and the decoded index
CreatesWithLease ==
    containers' # containers =>
        \E p \in Procs :
            /\ pc[p] = "nc_create" /\ pc'[p] = "nc_done"
            /\ frame[p].err = "nil" /\ frame'[p].err = "nil"
            /\ frame'[p].ctr = frame[p].ctr + 1
            /\ frame[p].held # <<>>
            /\ \A i \in DOMAIN frame[p].held : frame[p].held[i] \in leases
            /\ frame[p].op = "Restore" => frame[p].decoded /\ Len(frame[p].held) = 2

RestoreOutcome ==
    \A p \in Procs :
        frame[p].op = "Restore" =>
            /\ frame[p].err = "DecodeErr" =>
                   /\ pc[p] = "done"
                   /\ frame[p].leased = 0 /\ frame[p].ctr = 0 /\ ~frame[p].decoded
            /\ frame[p].err \in {"LeaseErr", "OptErr"} => frame[p].ctr = 0
            /\ frame[p].ctr > 0 =>
                   /\ frame[p].err = "nil" /\ frame[p].decoded
                   /\ frame[p].name \in containers
            /\ frame[p].leased > 0 => frame[p].decoded
            /\ frame[p].leased = frame[p].freed + Len(frame[p].held)
            /\ \A i \in DOMAIN frame[p].held : frame[p].held[i] \in leases
            /\ pc[p] = "done" => frame[p].held = <<>> /\ frame[p].freed = frame[p].leased

\* C24: a Restore whose checkpoint index cannot be decoded returns having
\* acquired no lease and created no container; a Restore that fails to
\* acquire a lease, or whose container options fail, has created no
\* container; a container is created only by a call that has met no error
\* and holds its leases; and every lease a Restore acquired has been released
\* once by the time it returns, whichever way it returns.
C24_RestoreCreatesNothingOnFailure ==
    /\ []RestoreOutcome
    /\ []((\A p \in Procs : ~Running(p)) =>
              leases = {} /\ leaseStats.deletes = leaseStats.creates)
    /\ [][CreatesWithLease]_vars

C24_Witness ==
    \E p \in Procs :
        /\ frame[p].op = "Restore" /\ pc[p] = "done"
        /\ frame[p].err = "OptErr" /\ frame[p].decoded
        /\ frame[p].leased = 2 /\ frame[p].freed = 2
        /\ frame[p].ctr = 0 /\ containers = {} /\ leases = {}

\* ------------------------------------------------- claims on lookups by name
\* the call has looked its name up in the override table, or is making or
\* has made the remote handle under it
Keyed(p) ==
    /\ frame[p].op \in {"SnapshotService", "SandboxController"}
    /\ pc[p] \in {"ss_bind", "sb_bind", "done"}

\* C25: a snapshotter lookup and a sandbox-controller lookup given the empty
\* name have resolved it before they look into the override table or make
\* the remote handle, so the name they look up or make the handle under is
\* never empty.
C25_EmptyNameResolvedFirst ==
    \A p \in Procs :
        (Keyed(p) /\ frame[p].name = "") =>
            /\ frame[p].looked = 1
            /\ frame[p].result # ""

\* the snapshotter lookup alone does resolve the empty name first
SnapshotterNameResolvedFirst ==
    \A p \in Procs :
        (Keyed(p) /\ frame[p].op = "SnapshotService" /\ frame[p].name = "") =>
            /\ frame[p].looked = 1
            /\ frame[p].result # ""
            /\ frame[p].found = "local" => frame[p].result \in client.snapshotters.names

\* ------------------------------------------------ claims on the handler chain
\* C26: the handler chain a Push hands to PushContent runs the base handlers
\* in the order they were configured, then the built-in handler, with the
\* caller's handler wrapper, if there is one, around all of them; without
\* base handlers the wrapper handed over is the caller's own, unchanged;
\* without base handlers and without a caller's wrapper none is handed over.
C26_HandlerChainOrder ==
    \A p \in Procs :
        (call[p].op = "Push" /\ call[p].pusherRefs # <<>> /\ call[p].err # "PusherErr") =>
            LET base == call[p].in.BaseHandlers
                hw   == call[p].in.HandlerWrapper
                w    == call[p].wrapper
                ch   == call[p].chain
                n    == Len(ch)
                k    == IF hw = "nil" THEN 0 ELSE 1
            IN  /\ n = k + Len(base) + 1
                /\ hw # "nil" => ch[1] = hw
                /\ \A i \in 1..Len(base) : ch[k + i] = base[i]
                /\ ch[n] = BuiltIn
                /\ base = <<>> /\ hw # "nil" => w = [kind |-> "caller", base |-> <<>>, hw |-> hw]
                /\ base = <<>> /\ hw = "nil" => w.kind = "nil" /\ ch = <<BuiltIn>>
                /\ w.kind = "closure" <=> base # <<>>

C26_Witness ==
    \E p \in Procs :
        /\ call[p].op = "Push" /\ pc[p] = "push_content"
        /\ call[p].in.BaseHandlers = <<"b2", "b1">> /\ call[p].in.HandlerWrapper = "w"
        /\ call[p].chain = <<"w", "b2", "b1", "push">>
====
